---- MODULE Spec2Model ----
(***************************************************************************)
(* Model of monoidic/rir: the delegation-feed reader (reader.go), the      *)
(* IPv4 prefix decomposition (IpRecord.v4Net), the concurrent collector    *)
(* (retrieveData) and the query engine (main.go and its variants).         *)
(*                                                                         *)
(* The module holds several state machines over one set of variables;      *)
(* each has its own specification (SpecNet, SpecNet6, SpecPipe, SpecIter, *)
(* SpecFan, SpecStats, SpecRead; FairNet and FairIter add the scheduling). *)
(* A machine leaves the variables of the other machines at their initial   *)
(* values.                                                                 *)
(***************************************************************************)
EXTENDS Integers, Sequences, FiniteSets, TLC

(***************************************************************************)
(* Bounds.                                                                 *)
(***************************************************************************)
\* Width of the IPv4 address word.  The source uses uint32; the model runs
\* the same arithmetic on an AddrBits-bit word (all "32" of the
\* decomposition become AddrBits, all "% 2^32" become "% 2^AddrBits").
AddrBits == 4

RECURSIVE Pow2(_)
Pow2(n) == IF n <= 0 THEN 1 ELSE 2 * Pow2(n - 1)

\* number of values of the address word (2^32 in the source)
AddrSpace == Pow2(AddrBits)

\* uint32(x) conversion / wrap-around of uint32 arithmetic
U32(x) == x % AddrSpace

Min(a, b) == IF a < b THEN a ELSE b

VARIABLES
  \* ---- IpRecord.v4Net ----
  npc,          \* position in v4Net: "idle", "loop", "stopped", "done"
  ipr,          \* the record being decomposed: [Start, Value]
  hostsCount,   \* uint32 remaining count
  currentStart, \* uint32 current start address
  out           \* prefixes handed to yield / appended to out, in order

netVars == <<npc, ipr, hostsCount, currentStart, out>>

VARIABLES
  \* ---- the query pipeline: main, retrieveData, Query.* ----
  variant,   \* "chan": main.go (channels and WaitGroups); "iter":
             \* the iterator variant (retrieveData(yield), bufferedSeq);
             \* "old": the oldest variant (closures in matchOn*)
  query,     \* the Query value built by main: [mode, country, ipstring]
  feeds,     \* feeds[i]: the Records.Ips that Read returns for source i
  ppc,       \* ppc[i]: position of the task of source i
  rch,       \* buffer of the record-set channel (source ids, FIFO)
  rclosed,   \* the record-set channel is closed
  rcloses,   \* number of close(ch) executed on the record-set channel
  wg,        \* WaitGroup counter of retrieveData
  mpc,       \* position of the consuming goroutine (main)
  cur,       \* iter: [src, e] region and entry the consumer is scanning
  stopped,   \* iter: the consumer's yield has returned false
  drained,   \* iter: record sets received by the draining loop
  dpc,       \* chan: position of the readRegions* goroutine
  spc,       \* chan: spc[i]: position of the scanning task of region i
  spos,      \* chan: spos[i] = [e, k]: entry and prefix the task is at
  resch,     \* chan: buffer of the result channel
  resclosed, \* chan: the result channel is closed
  wg2,       \* chan: WaitGroup counter of matchOnCountry / matchOnIp
  bs,        \* iter: the bufferedSeq of the current entry
  received,  \* record sets received from the record-set channel, in order
  output,    \* results handed to the consumer (printed), in order
  aborted    \* the process has terminated on a fatal error

collVars == <<ppc, rch, rclosed, rcloses, wg>>
iterVars == <<cur, stopped, drained, bs>>
chanVars == <<dpc, spc, spos, resch, resclosed, wg2>>
pipeVars == <<variant, query, feeds, collVars, mpc, iterVars, chanVars,
              received, output, aborted>>

VARIABLES
  \* ---- the -n branch of main / Query.countryStats ----
  countV4,   \* big.Int total of the IPv4 prefixes
  countV6,   \* big.Int total of the IPv6 prefixes
  counted    \* the prefixes taken from the results so far: [fam, bits]

statsVars == <<countV4, countV6, counted>>

VARIABLES
  \* ---- Reader.Read ----
  rpc,       \* "off", "scan", "returned", "fatal" (log.Fatalf / panic)
  feed,      \* the lines of the feed, each a sequence of characters
  lineNo,    \* number of lines scanned so far
  recs       \* the locals of Read that make up the Records it returns

readVars == <<rpc, feed, lineNo, recs>>

VARIABLES
  \* ---- Query.matchOnCountry / Query.matchOnIp of the oldest variant ----
  region,    \* loop variable of `for region := range records`
             \* (0: nothing received yet)
  scanned    \* scanned[i]: the record set whose Ips the task spawned
             \* for record set i ranges over (0: not read yet)

fanVars == <<region, scanned>>

VARIABLES
  \* ---- CachedProvider.GetData ----
  cpc,       \* "idle", "returned", "fatal" (log.Fatalf / log.Panic)
  cfile,     \* bytes of the cache file ~/.rir/<name>/latest
  cfresh,    \* the file's modification time is less than 24 hours ago
  remote,    \* bytes of the feed the registry serves at p.url
  cret,      \* bytes of the reader the last GetData call returned
  fetched,   \* the last GetData call downloaded the feed
  ncalls     \* number of GetData calls made so far

cacheVars == <<cpc, cfile, cfresh, remote, cret, fetched, ncalls>>

vars == <<netVars, pipeVars, statsVars, readVars, fanVars, cacheVars>>

(***************************************************************************)
(* reader.go: hostMaxLen, v4Net                                            *)
(***************************************************************************)
\* netip.PrefixFrom(ip, bits) for an IPv4 address: the address is kept as
\* given (not masked); bits outside 0..BitLen give the invalid length -1.
PrefixFrom4(ip, bits) ==
  [fam |-> "ipv4", addr |-> ip, bits |-> IF bits < 0 \/ bits > AddrBits THEN -1 ELSE bits]

RECURSIVE TrailingZeros(_)
TrailingZeros(ip) == IF ip % 2 = 0 THEN 1 + TrailingZeros(ip \div 2) ELSE 0

\* func hostMaxLen(ip uint32) int
hostMaxLen(ip) == IF ip = 0 THEN AddrBits ELSE TrailingZeros(ip)

\* int(math.Log2(float64(hostsCount))) for hostsCount > 0.  float64 holds
\* every uint32 exactly and math.Log2 is exact on powers of two, so the
\* truncation is floor(log2).
RECURSIVE Log2Floor(_)
Log2Floor(n) == IF n <= 1 THEN 0 ELSE 1 + Log2Floor(n \div 2)

\* a decomposition that takes the largest block the count allows and
\* ignores the alignment of the start address
minNetOf_IgnoreAlignment(start, count) == Log2Floor(count)

\* a block size taken from the alignment of the start address alone
minNetOf_AlignmentOnly(start, count) == hostMaxLen(start)

\* a logarithm rounded up instead of truncated
minNetOf_RoundedUp(start, count) ==
  Min(IF Pow2(Log2Floor(count)) = count THEN Log2Floor(count)
                                         ELSE Log2Floor(count) + 1,
      hostMaxLen(start))

\* minNet of one loop iteration: min(logRes, maxRes)
minNetOf(start, count) == Min(Log2Floor(count), hostMaxLen(start))

\* the records fed to v4Net: any start address, any count up to the whole
\* address space
StartValues == 0 .. (AddrSpace - 1)
CountValues == 0 .. AddrSpace





\* entry of v4Net: hostsCount := uint32(ipr.Value); currentStart := Start
V4NetCall(s, v) ==
  /\ npc = "idle"
  /\ ipr' = [Start |-> s, Value |-> v]
  /\ hostsCount' = U32(v)
  /\ currentStart' = s
  /\ out' = <<>>
  /\ npc' = "loop"
  /\ UNCHANGED <<pipeVars, statsVars, readVars, fanVars, cacheVars>>

\* one iteration of "for hostsCount > 0" in which yield returns true (the
\* slice variant appends and always continues)
V4NetStep ==
  /\ npc = "loop"
  /\ hostsCount > 0
  /\ LET minNet == minNetOf(currentStart, hostsCount)
         numHosts == U32(Pow2(minNet))
     IN /\ out' = Append(out, PrefixFrom4(currentStart, AddrBits - minNet))
        /\ hostsCount' = U32(hostsCount - numHosts + AddrSpace)
        /\ currentStart' = U32(currentStart + numHosts)
  /\ UNCHANGED <<npc, ipr>>
  /\ UNCHANGED <<pipeVars, statsVars, readVars, fanVars, cacheVars>>

\* one iteration in which yield returns false: the iterator variant returns
V4NetYieldFalse ==
  /\ npc = "loop"
  /\ hostsCount > 0
  /\ LET minNet == minNetOf(currentStart, hostsCount)
     IN out' = Append(out, PrefixFrom4(currentStart, AddrBits - minNet))
  /\ npc' = "stopped"
  /\ UNCHANGED <<ipr, hostsCount, currentStart>>
  /\ UNCHANGED <<pipeVars, statsVars, readVars, fanVars, cacheVars>>

\* loop exit: hostsCount == 0
V4NetReturn ==
  /\ npc = "loop"
  /\ hostsCount = 0
  /\ npc' = "done"
  /\ UNCHANGED <<ipr, hostsCount, currentStart, out>>
  /\ UNCHANGED <<pipeVars, statsVars, readVars, fanVars, cacheVars>>

NetNext ==
  \/ \E s \in StartValues, v \in CountValues : V4NetCall(s, v)
  \/ V4NetStep
  \/ V4NetYieldFalse
  \/ V4NetReturn

\* v4Net has not been called; the other machines are at rest
InitNet ==
  /\ npc = "idle"
  /\ ipr = [Start |-> 0, Value |-> 0]
  /\ hostsCount = 0
  /\ currentStart = 0
  /\ out = <<>>
  /\ variant = "chan"
  /\ query = [mode |-> "country", country |-> "", ipstring |-> ""]
  /\ feeds = <<>>
  /\ ppc = <<>>
  /\ rch = <<>>
  /\ rclosed = FALSE
  /\ rcloses = 0
  /\ wg = 0
  /\ mpc = "off"
  /\ cur = [src |-> 0, e |-> 0]
  /\ stopped = FALSE
  /\ drained = 0
  /\ dpc = "off"
  /\ spc = <<>>
  /\ spos = <<>>
  /\ resch = <<>>
  /\ resclosed = FALSE
  /\ wg2 = 0
  /\ bs = [gpc |-> "none", nets |-> <<>>, k |-> 1, ch |-> <<>>, closed |-> FALSE, done |-> FALSE]
  /\ received = <<>>
  /\ output = <<>>
  /\ aborted = FALSE
  /\ countV4 = 0
  /\ countV6 = 0
  /\ counted = <<>>
  /\ rpc = "off"
  /\ feed = <<>>
  /\ lineNo = 0
  /\ recs = [Version |-> <<"0">>, Count |-> 0, AsnCount |-> 0, Ipv4Count |-> 0,
             Ipv6Count |-> 0, Asns |-> <<>>, Ips |-> <<>>]
  /\ region = 0
  /\ scanned = <<>>
  /\ cpc = "off"
  /\ cfile = <<>>
  /\ cfresh = TRUE
  /\ remote = <<>>
  /\ cret = <<>>
  /\ fetched = FALSE
  /\ ncalls = 0

SpecNet == InitNet /\ [][NetNext]_vars

\* the goroutine that runs v4Net is scheduled as long as it can step
V4NetTask == V4NetStep \/ V4NetYieldFalse \/ V4NetReturn
FairNet == SpecNet /\ WF_vars(V4NetTask)

(***************************************************************************)
(* Properties of the decomposition (SpecNet)                               *)
(***************************************************************************)
\* number of addresses of a prefix: 2^(32 - prefixLength)
BlockSize(p) == Pow2(AddrBits - p.bits)

\* the addresses a prefix covers
BlockAddrs(p) == p.addr .. (p.addr + BlockSize(p) - 1)

RECURSIVE SumSizes(_)
SumSizes(ps) == IF ps = <<>> THEN 0 ELSE BlockSize(Head(ps)) + SumSizes(Tail(ps))

\* the entry satisfies "count >= 1 and start + count <= 2^32"
ValidEntry == ipr.Value >= 1 /\ ipr.Start + ipr.Value <= AddrSpace

PairwiseDisjoint(ps) ==
  \A i, j \in 1 .. Len(ps) : i # j => BlockAddrs(ps[i]) \cap BlockAddrs(ps[j]) = {}

CoversExactly(ps, s, c) ==
  UNION {BlockAddrs(ps[i]) : i \in 1 .. Len(ps)} = s .. (s + c - 1)

Decomposes(ps, s, c) ==
  /\ PairwiseDisjoint(ps)
  /\ CoversExactly(ps, s, c)
  /\ SumSizes(ps) = c

\* C1: for every IPv4 entry (start, count) with count >= 1 and
\* start + count <= 2^32, the prefixes v4Net produced when its loop has run
\* to the end are pairwise disjoint, cover exactly [start, start+count) and
\* their sizes sum to count.
C1_DecompositionExact ==
  (npc = "done" /\ ValidEntry) => Decomposes(out, ipr.Start, ipr.Value)

\* the same statement for the entries whose count fits the 32-bit word
C1_DecompositionBelowWordSize ==
  (npc = "done" /\ ValidEntry /\ ipr.Value < AddrSpace)
     => Decomposes(out, ipr.Start, ipr.Value)

\* least number of address-aligned blocks whose disjoint union is
\* [a, a+n): the block holding a must start at a, so it is one aligned
\* block at a of some size 2^k <= n plus a least cover of the rest
RECURSIVE MinBlocks(_, _)
MinBlocks(a, n) ==
  IF n = 0 THEN 0
  ELSE LET ks == {k \in 0 .. AddrBits : a % Pow2(k) = 0 /\ Pow2(k) <= n}
           cs == {1 + MinBlocks(a + Pow2(k), n - Pow2(k)) : k \in ks}
       IN CHOOSE m \in cs : \A x \in cs : m <= x

StrictlyAscending(ps) ==
  \A i \in 1 .. Len(ps) - 1 : ps[i].addr < ps[i + 1].addr

\* C2: for every valid IPv4 entry the prefixes are emitted in strictly
\* ascending start-address order and their number is the least number of
\* address-aligned blocks whose disjoint union is [start, start+count).
C2_MinimalOrdered ==
  (npc = "done" /\ ValidEntry)
     => /\ StrictlyAscending(out)
        /\ Len(out) = MinBlocks(ipr.Start, ipr.Value)

\* the same statement for the entries whose count fits the 32-bit word
C2_MinimalOrderedBelowWordSize ==
  (npc = "done" /\ ValidEntry /\ ipr.Value < AddrSpace)
     => /\ StrictlyAscending(out)
        /\ Len(out) = MinBlocks(ipr.Start, ipr.Value)

\* C3: every prefix emitted by v4Net is address-aligned: its start address
\* is divisible by 2^(32 - prefixLength), at every loop iteration and for
\* every (start, count), start = 0.0.0.0 included.
C3_Aligned ==
  \A i \in 1 .. Len(out) :
     /\ out[i].bits \in 0 .. AddrBits
     /\ out[i].addr % BlockSize(out[i]) = 0

\* an entry starting at 0.0.0.0 (hostMaxLen returns 32) decomposed into
\* several prefixes, and an entry at an odd start
C3_Witness ==
  /\ npc = "done"
  /\ ipr.Start = 0
  /\ Len(out) >= 2
  /\ out[1].addr = 0

\* C17: the loop of v4Net terminates for every start address and every
\* count: an iteration that goes on lowers the remaining count by the
\* size 2^blockBits >= 1 of the block it emitted, never below 0, the loop
\* is left with the remaining count at exactly 0, and a loop that was
\* entered is eventually left.
C17_LoopTerminates ==
  /\ [][((npc = "loop" /\ npc' = "loop") =>
            (/\ Len(out') = Len(out) + 1
             /\ BlockSize(out'[Len(out')]) >= 1
             /\ hostsCount' = hostsCount - BlockSize(out'[Len(out')])
             /\ hostsCount' >= 0
             /\ hostsCount' < hostsCount))
        /\ (npc' = "done" => hostsCount' = 0)]_vars
  /\ (npc = "loop") ~> (npc \in {"done", "stopped"})

\* the loop has been left after at least three blocks on an entry whose
\* range runs past the last address
C17_Witness ==
  /\ npc = "done"
  /\ hostsCount = 0
  /\ Len(out) >= 3
  /\ ipr.Start + ipr.Value > AddrSpace

\* floor(log2 c) for c >= 1: the k with 2^k <= c < 2^(k+1)
FloorLog2(c) == CHOOSE k \in 0 .. AddrBits : Pow2(k) <= c /\ c < Pow2(k + 1)

\* trailing-zero count of a word: the largest k up to the word size with
\* 2^k dividing it (the word size itself for 0)
TrailingZeroCount(a) ==
  CHOOSE k \in 0 .. AddrBits :
     /\ a % Pow2(k) = 0
     /\ \A j \in (k + 1) .. AddrBits : a % Pow2(j) # 0

\* C23: loop invariant of v4Net on 32-bit unsigned arithmetic: at every
\* iteration the remaining count c is in 1..2^32-1, blockBits =
\* min(trailing zeros of the current start, floor(log2 c)) is in 0..31,
\* the block size 2^blockBits does not exceed c (the remaining count does
\* not underflow), the emitted prefix length is in 1..32, and for an entry
\* with start + count <= 2^32 the current start does not wrap around before
\* the loop ends
C23_LoopInvariant ==
  [][(npc = "loop" /\ Len(out') = Len(out) + 1) =>
       (LET c == hostsCount
            p == out'[Len(out')]
            blockBits == AddrBits - p.bits
        IN /\ c \in 1 .. (AddrSpace - 1)
           /\ blockBits = Min(TrailingZeroCount(currentStart), FloorLog2(c))
           /\ blockBits \in 0 .. (AddrBits - 1)
           /\ Pow2(blockBits) <= c
           /\ p.bits \in 1 .. AddrBits
           /\ (npc' = "loop") => (hostsCount' = c - Pow2(blockBits))
           /\ (npc' = "loop" /\ hostsCount' > 0
                 /\ ipr.Start + ipr.Value <= AddrSpace)
                => (/\ currentStart' = currentStart + Pow2(blockBits)
                    /\ currentStart' = ipr.Start + (ipr.Value - hostsCount')))]_vars

\* the loop has ended on an entry that runs up to the last address: the
\* current start has wrapped to 0 with the last block, not before
C23_Witness ==
  /\ npc = "done"
  /\ ipr.Start > 0
  /\ ipr.Start + ipr.Value = AddrSpace
  /\ Len(out) >= 2
  /\ currentStart = 0

(***************************************************************************)
(* The query pipeline: providers.go, main.go (channel variant) and the     *)
(* iterator variant of main.go                                             *)
(***************************************************************************)
\* len(AllProviders): 5 in the source
NumSources == 2

\* capacity of the buffered channels the source creates with size 10
\* (retrieveData and match* of the channel variant, bufferedSeq)
ChanBuf == 2

\* width of an IPv6 address (128 in the source)
Addr6Bits == 5

Sources == 1 .. NumSources

\* an element of Records.Ips
IpRec(cc, type, start, value) ==
  [Cc |-> cc, Type |-> type, Start |-> start, Value |-> value]

\* Records.Ips of the feeds a source may serve.  Reader.Read puts a line
\* into Ips when its family field starts with "ipv".
FeedFR == << IpRec("FR", "ipv4", 4, 5), IpRec("DE", "ipv4", 0, 2), IpRec("FR", "ipv6", 8, 2) >>
FeedDup == << IpRec("FR", "ipv4", 4, 4), IpRec("fr", "ipv4", 12, 1), IpRec("", "ipv4", 5, 1) >>
FeedOdd == << IpRec("FR", "ipvx", 0, 1), IpRec("DE", "ipv4", 4, 2) >>
FeedLong == << IpRec("FR", "ipv4", 1, 14) >>

\* the feeds of the configured sources: the two well-formed feeds in turn,
\* in either order, or the feed with the unknown family at the first
\* source
CleanFeeds == <<FeedFR, FeedDup>>
FeedsFrom(o) == [i \in Sources |-> CleanFeeds[((i + o) % 2) + 1]]
FeedsOdd == [i \in Sources |-> IF i = 1 THEN FeedOdd ELSE CleanFeeds[(i % 2) + 1]]
FeedAssignments == {FeedsFrom(0), FeedsFrom(1), FeedsOdd}

\* for the iterator variant also the feed whose entry decomposes into six
\* prefixes (more than a bufferedSeq channel holds), at the first source
FeedsLong == [i \in Sources |-> IF i = 1 THEN FeedLong ELSE CleanFeeds[(i % 2) + 1]]
IterFeedAssignments == FeedAssignments \cup {FeedsLong}

\* strings.ToUpper on the country codes of the model
ToUpper(c) ==
  CASE c = "fr" -> "FR"
    [] c = "de" -> "DE"
    [] OTHER -> c

\* the values of the -c and -q flags; "1.2.3" is not an IP literal
RawCountries == {"fr", "DE"}
IpStrings == {"0.0.0.5", "::9", "1.2.3"}

\* netip.ParseAddr on the -q values of the model: the error and, without
\* error, the address (the zero Addr otherwise)
ParseAddr(s) ==
  CASE s = "0.0.0.5" -> [err |-> FALSE, addr |-> [fam |-> "ipv4", addr |-> 5]]
    [] s = "::9" -> [err |-> FALSE, addr |-> [fam |-> "ipv6", addr |-> 9]]
    [] OTHER -> [err |-> TRUE, addr |-> [fam |-> "invalid", addr |-> 0]]

\* the local addr of readRegionsIP / Query.matchOnIp
QAddr(q) == ParseAddr(q.ipstring).addr

\* main: query := Query{country: strings.ToUpper(country), ipstring: ipquery}
Queries ==
  {[mode |-> "country", country |-> ToUpper(c), ipstring |-> ""] : c \in RawCountries}
  \cup {[mode |-> "ip", country |-> "", ipstring |-> s] : s \in IpStrings}

\* netip.PrefixFrom for an IPv6 address
PrefixFrom6(ip, bits) ==
  [fam |-> "ipv6", addr |-> ip, bits |-> IF bits < 0 \/ bits > Addr6Bits THEN -1 ELSE bits]

\* the whole output of v4Net (the slice variant's return value), as the
\* loop computes it from (currentStart, hostsCount)
v4NetFrom(cs, hc) ==
  LET loop[st \in (0 .. AddrSpace - 1) \X (0 .. AddrSpace - 1)] ==
        IF st[2] = 0 THEN <<>>
        ELSE LET minNet == minNetOf(st[1], st[2])
                 numHosts == U32(Pow2(minNet))
             IN <<PrefixFrom4(st[1], AddrBits - minNet)>>
                  \o loop[<<U32(st[1] + numHosts), U32(st[2] - numHosts + AddrSpace)>>]
  IN loop[<<cs, hc>>]

v4Net(r) == v4NetFrom(r.Start, U32(r.Value))

\* an IPv6 decomposition that reads the value as a host count
v6Net_AsHostCount(r) == <<PrefixFrom6(r.Start, Addr6Bits - Log2Floor(r.Value))>>

\* func (ipr IpRecord) v6Net: netip.PrefixFrom(ipr.Start, ipr.Value)
v6Net(r) == <<PrefixFrom6(r.Start, r.Value)>>

\* IpRecord.Net: the default branch is log.Fatalf
NetFatal(r) == r.Type \notin {"ipv4", "ipv6"}
Net(r) == IF r.Type = "ipv4" THEN v4Net(r) ELSE v6Net(r)

(* ---- IpRecord.Net on its own: entries of the families other than ipv4 ---- *)

\* the IPv6 start addresses and the numeric values strconv.Atoi can hand
\* to v6Net as a length: from below 0 to beyond the width of the address
V6Starts == 0 .. (Pow2(Addr6Bits) - 1)
V6Values == (0 - 1) .. (Addr6Bits + 1)

\* ipr.Net() with ipr.Type == IPv6: v6Net yields one prefix
V6NetCall(s, v) ==
  /\ npc = "idle"
  /\ ipr' = [Start |-> s, Value |-> v]
  /\ out' = v6Net([Start |-> s, Value |-> v])
  /\ npc' = "done"
  /\ UNCHANGED <<hostsCount, currentStart>>
  /\ UNCHANGED <<pipeVars, statsVars, readVars, fanVars, cacheVars>>

\* ipr.Net() with a Type that is neither IPv4 nor IPv6: log.Fatalf
NetDefault(s, v) ==
  /\ npc = "idle"
  /\ ipr' = [Start |-> s, Value |-> v]
  /\ npc' = "fatal"
  /\ UNCHANGED <<hostsCount, currentStart, out>>
  /\ UNCHANGED <<pipeVars, statsVars, readVars, fanVars, cacheVars>>

Net6Next ==
  \/ \E s \in V6Starts, v \in V6Values : V6NetCall(s, v)
  \/ \E s \in V6Starts, v \in V6Values : NetDefault(s, v)

\* Net has not been called; the other machines are at rest
InitNet6 ==
  /\ npc = "idle"
  /\ ipr = [Start |-> 0, Value |-> 0]
  /\ hostsCount = 0
  /\ currentStart = 0
  /\ out = <<>>
  /\ variant \in {"chan", "iter"}
  /\ query = [mode |-> "country", country |-> "", ipstring |-> ""]
  /\ feeds = <<>>
  /\ ppc = <<>>
  /\ rch = <<>>
  /\ rclosed = FALSE
  /\ rcloses = 0
  /\ wg = 0
  /\ mpc = "off"
  /\ cur = [src |-> 0, e |-> 0]
  /\ stopped = FALSE
  /\ drained = 0
  /\ dpc = "off"
  /\ spc = <<>>
  /\ spos = <<>>
  /\ resch = <<>>
  /\ resclosed = FALSE
  /\ wg2 = 0
  /\ bs = [gpc |-> "none", nets |-> <<>>, k |-> 1, ch |-> <<>>, closed |-> FALSE, done |-> FALSE]
  /\ received = <<>>
  /\ output = <<>>
  /\ aborted = FALSE
  /\ countV4 = 0
  /\ countV6 = 0
  /\ counted = <<>>
  /\ rpc = "off"
  /\ feed = <<>>
  /\ lineNo = 0
  /\ recs = [Version |-> <<"0">>, Count |-> 0, AsnCount |-> 0, Ipv4Count |-> 0,
             Ipv6Count |-> 0, Asns |-> <<>>, Ips |-> <<>>]
  /\ region = 0
  /\ scanned = <<>>
  /\ cpc = "off"
  /\ cfile = <<>>
  /\ cfresh = TRUE
  /\ remote = <<>>
  /\ cret = <<>>
  /\ fetched = FALSE
  /\ ncalls = 0

SpecNet6 == InitNet6 /\ [][Net6Next]_vars

Contains_StartOnly(p, a) == p.bits # -1 /\ p.fam = a.fam /\ a.addr = p.addr

\* netip.Prefix.Contains: false for an invalid prefix or another family,
\* else the address and the prefix agree on the leading p.bits bits
Contains(p, a) ==
  /\ p.bits # -1
  /\ p.fam = a.fam
  /\ LET w == IF p.fam = "ipv4" THEN AddrBits ELSE Addr6Bits
         d == Pow2(w - p.bits)
     IN (a.addr \div d) = (p.addr \div d)

\* an entry test that forgets the country
MatchCountry_AnyCountry(r, q) == r.Type = "ipv4" \/ r.Type = "ipv6"

\* the entry test of readRecordsCountry / Query.readRegionsCountry
MatchCountry(r, q) == r.Cc = q.country /\ (r.Type = "ipv4" \/ r.Type = "ipv6")

\* separator of fmt.Sprintf in readRecordsIP and in Query.matchOnIp of
\* the oldest variant ("%s %s"), and in Query.matchOnIp of the iterator
\* variant ("%s\t%s")
Separator(v) == IF v = "iter" THEN "\t" ELSE " "

\* what is sent for prefix n of entry r
Result(r, n, q, v) ==
  IF q.mode = "country" THEN n ELSE [cc |-> r.Cc, sep |-> Separator(v), net |-> n]

\* capacity of the record-set channel: make(chan Records, 10) in main.go
\* and in the oldest variant, make(chan Records, len(AllProviders)) in the
\* iterator variant
RecCap(v) == IF v = "iter" THEN NumSources ELSE ChanBuf

\* a channel that hands out the latest element first
ChanPut_Stack(ch, x) == <<x>> \o ch

\* ch <- x on a buffered channel: the buffer is first in, first out
ChanPut(ch, x) == Append(ch, x)

\* a WaitGroup that counts one task too few
wgAddSources_OneShort == NumSources - 1

\* retrieveData: wg.Add(len(AllProviders))
wgAddSources == NumSources

\* matchOnCountry / matchOnIp: wg.Add(len(AllProviders))
wgAddRegions == NumSources

\* a task that returns without calling wg.Done
wgAfterDone_Forgotten(w) == w

\* wg.Done()
wgAfterDone(w) == w - 1


\* an error that is logged without ending the process
Running_LogOnly == TRUE

\* the process is alive: no log.Fatal / log.Panic / panic has ended it
Running == ~aborted

(* ---- retrieveData: the per-source tasks and the closing goroutine ---- *)

\* main.go: retrieveData() then matchOnCountry / matchOnIp: both add
\* len(AllProviders) to their WaitGroup and start their goroutines
MainStartChan ==
  /\ Running /\ mpc = "start" /\ variant = "chan"
  /\ ppc' = [i \in Sources |-> "read"]
  /\ wg' = wgAddSources
  /\ wg2' = wgAddRegions
  /\ dpc' = IF query.mode = "ip" THEN "parse" ELSE "range"
  /\ mpc' = "range"
  /\ UNCHANGED <<variant, query, feeds, rch, rclosed, rcloses, iterVars,
                 spc, spos, resch, resclosed, received, output, aborted>>
  /\ UNCHANGED <<netVars, statsVars, readVars, fanVars, cacheVars>>

\* Query.matchOnIp: addr := netip.MustParseAddr(q.ipstring) panics before
\* the range over retrieveData
IterParseFatal ==
  /\ Running /\ mpc = "start" /\ variant = "iter"
  /\ query.mode = "ip" /\ ParseAddr(query.ipstring).err
  /\ mpc' = "badaddr"
  /\ aborted' = TRUE
  /\ UNCHANGED <<variant, query, feeds, collVars, iterVars,
                 chanVars, received, output>>
  /\ UNCHANGED <<netVars, statsVars, readVars, fanVars, cacheVars>>

\* iterator variant: (matchOnIp: the address parses, then) the range over
\* retrieveData starts the goroutines and then receives from the channel
MainStartIter ==
  /\ Running /\ mpc = "start" /\ variant = "iter"
  /\ query.mode = "ip" => ~ParseAddr(query.ipstring).err
  /\ ppc' = [i \in Sources |-> "read"]
  /\ wg' = wgAddSources
  /\ mpc' = "recv"
  /\ UNCHANGED <<variant, query, feeds, rch, rclosed, rcloses, iterVars,
                 chanVars, received, output, aborted>>
  /\ UNCHANGED <<netVars, statsVars, readVars, fanVars, cacheVars>>

\* NewReader(p.GetData()).Read() returns the record set
ReadOk(i) ==
  /\ Running /\ ppc[i] = "read"
  /\ ppc' = [ppc EXCEPT ![i] = "send"]
  /\ UNCHANGED <<variant, query, feeds, rch, rclosed, rcloses, wg, mpc,
                 iterVars, chanVars, received, output, aborted>>
  /\ UNCHANGED <<netVars, statsVars, readVars, fanVars, cacheVars>>

\* GetData or Read fails: check1 -> log.Panic, log.Fatalf, panic
ReadFail(i) ==
  /\ Running /\ ppc[i] = "read"
  /\ ppc' = [ppc EXCEPT ![i] = "failed"]
  /\ aborted' = TRUE
  /\ UNCHANGED <<variant, query, feeds, rch, rclosed, rcloses, wg, mpc,
                 iterVars, chanVars, received, output>>
  /\ UNCHANGED <<netVars, statsVars, readVars, fanVars, cacheVars>>

\* ch <- records; a send on a closed channel panics
SendRecords(i) ==
  /\ Running /\ ppc[i] = "send"
  /\ rclosed \/ Len(rch) < RecCap(variant)
  /\ IF rclosed
       THEN /\ ppc' = [ppc EXCEPT ![i] = "sendpanic"]
            /\ aborted' = TRUE
            /\ UNCHANGED rch
       ELSE /\ ppc' = [ppc EXCEPT ![i] = "wgdone"]
            /\ rch' = ChanPut(rch, i)
            /\ UNCHANGED aborted
  /\ UNCHANGED <<variant, query, feeds, rclosed, rcloses, wg, mpc,
                 iterVars, chanVars, received, output>>
  /\ UNCHANGED <<netVars, statsVars, readVars, fanVars, cacheVars>>

\* wg.Done()
SourceDone(i) ==
  /\ Running /\ ppc[i] = "wgdone"
  /\ ppc' = [ppc EXCEPT ![i] = "end"]
  /\ wg' = wgAfterDone(wg)
  /\ UNCHANGED <<variant, query, feeds, rch, rclosed, rcloses, mpc,
                 iterVars, chanVars, received, output, aborted>>
  /\ UNCHANGED <<netVars, statsVars, readVars, fanVars, cacheVars>>

\* go func() { wg.Wait(); close(ch) }()
CloseRecords ==
  /\ Running /\ mpc \notin {"start", "badaddr"} /\ rcloses = 0
  /\ wg = 0
  /\ rclosed' = TRUE
  /\ rcloses' = rcloses + 1
  /\ UNCHANGED <<variant, query, feeds, ppc, rch, wg, mpc,
                 iterVars, chanVars, received, output, aborted>>
  /\ UNCHANGED <<netVars, statsVars, readVars, fanVars, cacheVars>>

(* ---- main.go: readRegions*, readRecords*, the result channel ---- *)

\* the next thing the loops of readRecordsCountry / readRecordsIP do from
\* entry e, prefix k of the entries es: send a result, die in Net(), or
\* fall out of the loops
ScanAt(es, e, k, q, v) ==
  LET at[pos \in (1 .. Len(es) + 1) \X (1 .. 2 * AddrBits + 1)] ==
        IF pos[1] > Len(es) THEN [kind |-> "end", e |-> pos[1], k |-> pos[2]]
        ELSE LET r == es[pos[1]] IN
          IF q.mode = "country" /\ ~MatchCountry(r, q) THEN at[<<pos[1] + 1, 1>>]
          ELSE IF NetFatal(r) THEN [kind |-> "fatal", e |-> pos[1], k |-> pos[2]]
          ELSE LET nets == Net(r) IN
            IF pos[2] > Len(nets) THEN at[<<pos[1] + 1, 1>>]
            ELSE IF q.mode = "ip" /\ ~Contains(nets[pos[2]], QAddr(q))
                   THEN at[<<pos[1], pos[2] + 1>>]
            ELSE [kind |-> "send", e |-> pos[1], k |-> pos[2]]
  IN at[<<e, k>>]

\* readRegionsIP: addr, err := netip.ParseAddr(ipstring); panic(err)
DispatchParse ==
  /\ Running /\ dpc = "parse"
  /\ IF ParseAddr(query.ipstring).err
       THEN /\ dpc' = "panic"
            /\ aborted' = TRUE
       ELSE /\ dpc' = "range"
            /\ UNCHANGED aborted
  /\ UNCHANGED <<variant, query, feeds, collVars, mpc, iterVars,
                 spc, spos, resch, resclosed, wg2, received, output>>
  /\ UNCHANGED <<netVars, statsVars, readVars, fanVars, cacheVars>>

\* for region := range recordsCh { go readRecords*(region, ch, ..., wg) }
DispatchRecv ==
  /\ Running /\ dpc = "range"
  /\ rch # <<>>
  /\ LET i == Head(rch)
     IN /\ spc' = [spc EXCEPT ![i] = "scan"]
        /\ received' = Append(received, i)
  /\ rch' = Tail(rch)
  /\ UNCHANGED <<variant, query, feeds, ppc, rclosed, rcloses, wg, mpc,
                 iterVars, dpc, spos, resch, resclosed, wg2, output, aborted>>
  /\ UNCHANGED <<netVars, statsVars, readVars, fanVars, cacheVars>>

\* the range over recordsCh ends when the channel is closed and empty
DispatchEnd ==
  /\ Running /\ dpc = "range"
  /\ rch = <<>> /\ rclosed
  /\ dpc' = "end"
  /\ UNCHANGED <<variant, query, feeds, collVars, mpc, iterVars,
                 spc, spos, resch, resclosed, wg2, received, output, aborted>>
  /\ UNCHANGED <<netVars, statsVars, readVars, fanVars, cacheVars>>

\* ch <- net / ch <- fmt.Sprintf(...): blocks while the buffer is full
ScanSend(i) ==
  /\ Running /\ spc[i] = "scan"
  /\ LET at == ScanAt(feeds[i], spos[i].e, spos[i].k, query, variant)
     IN /\ at.kind = "send"
        /\ resclosed \/ Len(resch) < ChanBuf
        /\ IF resclosed
             THEN /\ aborted' = TRUE
                  /\ UNCHANGED <<resch, spos>>
             ELSE /\ resch' = ChanPut(resch,
                        [src |-> i,
                         r |-> Result(feeds[i][at.e], Net(feeds[i][at.e])[at.k], query, variant)])
                  /\ spos' = [spos EXCEPT ![i] = [e |-> at.e, k |-> at.k + 1]]
                  /\ UNCHANGED aborted
  /\ UNCHANGED <<variant, query, feeds, collVars, mpc, iterVars,
                 dpc, spc, resclosed, wg2, received, output>>
  /\ UNCHANGED <<netVars, statsVars, readVars, fanVars, cacheVars>>

\* iprecord.Net() on an entry that is neither ipv4 nor ipv6: log.Fatalf
ScanFatal(i) ==
  /\ Running /\ spc[i] = "scan"
  /\ ScanAt(feeds[i], spos[i].e, spos[i].k, query, variant).kind = "fatal"
  /\ aborted' = TRUE
  /\ UNCHANGED <<variant, query, feeds, collVars, mpc, iterVars,
                 chanVars, received, output>>
  /\ UNCHANGED <<netVars, statsVars, readVars, fanVars, cacheVars>>

\* the loops are over: wg.Done()
ScanDone(i) ==
  /\ Running /\ spc[i] = "scan"
  /\ ScanAt(feeds[i], spos[i].e, spos[i].k, query, variant).kind = "end"
  /\ spc' = [spc EXCEPT ![i] = "end"]
  /\ wg2' = wgAfterDone(wg2)
  /\ UNCHANGED <<variant, query, feeds, collVars, mpc, iterVars,
                 dpc, spos, resch, resclosed, received, output, aborted>>
  /\ UNCHANGED <<netVars, statsVars, readVars, fanVars, cacheVars>>

\* go func() { wg.Wait(); close(ch) }() of matchOnCountry / matchOnIp
CloseResults ==
  /\ Running /\ variant \in {"chan", "old"} /\ mpc # "start" /\ ~resclosed
  /\ wg2 = 0
  /\ resclosed' = TRUE
  /\ UNCHANGED <<variant, query, feeds, collVars, mpc, iterVars,
                 dpc, spc, spos, resch, wg2, received, output, aborted>>
  /\ UNCHANGED <<netVars, statsVars, readVars, fanVars, cacheVars>>

\* main: for r := range results { fmt.Println(r) }
MainRecv ==
  /\ Running /\ mpc = "range"
  /\ resch # <<>>
  /\ output' = Append(output, Head(resch))
  /\ resch' = Tail(resch)
  /\ UNCHANGED <<variant, query, feeds, collVars, mpc, iterVars,
                 dpc, spc, spos, resclosed, wg2, received, aborted>>
  /\ UNCHANGED <<netVars, statsVars, readVars, fanVars, cacheVars>>

MainEnd ==
  /\ Running /\ mpc = "range"
  /\ resch = <<>> /\ resclosed
  /\ mpc' = "completed"
  /\ UNCHANGED <<variant, query, feeds, collVars, iterVars,
                 chanVars, received, output, aborted>>
  /\ UNCHANGED <<netVars, statsVars, readVars, fanVars, cacheVars>>

(* ---- iterator variant: retrieveData(yield), Query.readRegionsCountry, ---- *)
(* ---- Query.matchOnIp, bufferedSeq                                     ---- *)

\* first entry from e on for which the loop body creates a bufferedSeq
NextEntry(es, e, q) ==
  LET next[x \in 1 .. Len(es) + 1] ==
        IF x > Len(es) THEN x
        ELSE IF q.mode = "country" /\ ~MatchCountry(es[x], q) THEN next[x + 1]
        ELSE x
  IN next[e]

\* for record := range ch { if !yield(record) { break } }: a record set
\* is received and yield (the region loop of the query) starts on it
IterRecv ==
  /\ Running /\ mpc = "recv"
  /\ rch # <<>>
  /\ received' = Append(received, Head(rch))
  /\ cur' = [src |-> Head(rch), e |-> 1]
  /\ rch' = Tail(rch)
  /\ mpc' = "scan"
  /\ UNCHANGED <<variant, query, feeds, ppc, rclosed, rcloses, wg,
                 stopped, drained, bs, chanVars, output, aborted>>
  /\ UNCHANGED <<netVars, statsVars, readVars, fanVars, cacheVars>>

\* the first range over ch ends on the closed channel; the draining loop
\* follows
IterRecvEnd ==
  /\ Running /\ mpc = "recv"
  /\ rch = <<>> /\ rclosed
  /\ mpc' = "drain"
  /\ UNCHANGED <<variant, query, feeds, collVars, iterVars,
                 chanVars, received, output, aborted>>
  /\ UNCHANGED <<netVars, statsVars, readVars, fanVars, cacheVars>>

\* the entry loop: the next entry that passes the test gets
\* bufferedSeq(iprecord.Net(), 10), whose goroutine starts; past the last
\* entry yield returns true
IterScan ==
  /\ Running /\ mpc = "scan"
  /\ LET es == feeds[cur.src]
         e == NextEntry(es, cur.e, query)
     IN IF e > Len(es)
          THEN /\ mpc' = "recv"
               /\ UNCHANGED <<cur, bs>>
          ELSE /\ mpc' = "brecv"
               /\ cur' = [cur EXCEPT !.e = e]
               /\ bs' = [gpc |-> "run", nets |-> IF NetFatal(es[e]) THEN <<>> ELSE Net(es[e]),
                         k |-> 1, ch |-> <<>>, closed |-> FALSE, done |-> FALSE]
  /\ UNCHANGED <<variant, query, feeds, collVars, stopped, drained,
                 chanVars, received, output, aborted>>
  /\ UNCHANGED <<netVars, statsVars, readVars, fanVars, cacheVars>>

\* bufferedSeq goroutine: ranging over iprecord.Net of an entry that is
\* neither ipv4 nor ipv6 is log.Fatalf
BufFatal ==
  /\ Running /\ bs.gpc = "run"
  /\ NetFatal(feeds[cur.src][cur.e])
  /\ aborted' = TRUE
  /\ UNCHANGED <<variant, query, feeds, collVars, mpc, iterVars,
                 chanVars, received, output>>
  /\ UNCHANGED <<netVars, statsVars, readVars, fanVars, cacheVars>>

\* bufferedSeq goroutine: the sequence has a next element and
\* "if done { break }" reads false.  done is written by the consumer
\* without synchronisation, so a read after the write may still see false.
BufCheck ==
  /\ Running /\ bs.gpc = "run"
  /\ ~NetFatal(feeds[cur.src][cur.e])
  /\ bs.k <= Len(bs.nets)
  /\ bs' = [bs EXCEPT !.gpc = "send"]
  /\ UNCHANGED <<variant, query, feeds, collVars, mpc, cur, stopped, drained,
                 chanVars, received, output, aborted>>
  /\ UNCHANGED <<netVars, statsVars, readVars, fanVars, cacheVars>>

\* bufferedSeq goroutine: ch <- e, which blocks while the buffer is full
BufSend ==
  /\ Running /\ bs.gpc = "send"
  /\ Len(bs.ch) < ChanBuf
  /\ bs' = [bs EXCEPT !.ch = ChanPut(bs.ch, bs.nets[bs.k]), !.k = bs.k + 1,
                       !.gpc = "run"]
  /\ UNCHANGED <<variant, query, feeds, collVars, mpc, cur, stopped, drained,
                 chanVars, received, output, aborted>>
  /\ UNCHANGED <<netVars, statsVars, readVars, fanVars, cacheVars>>

\* bufferedSeq goroutine: the sequence is over, or done is read true:
\* close(ch)
BufClose ==
  /\ Running /\ bs.gpc = "run"
  /\ ~NetFatal(feeds[cur.src][cur.e])
  /\ bs.k > Len(bs.nets) \/ bs.done
  /\ bs' = [bs EXCEPT !.closed = TRUE, !.gpc = "end"]
  /\ UNCHANGED <<variant, query, feeds, collVars, mpc, cur, stopped, drained,
                 chanVars, received, output, aborted>>
  /\ UNCHANGED <<netVars, statsVars, readVars, fanVars, cacheVars>>

\* consumer side of bufferedSeq: for e := range ch { if !yield(e) break }.
\* In matchOnIp a prefix that does not contain the address is passed over;
\* otherwise the result goes to the consumer, whose yield returns b.  On
\* false the loop over the channel is left.
BufRecv(b) ==
  /\ Running /\ mpc = "brecv"
  /\ bs.ch # <<>>
  /\ LET n == Head(bs.ch)
         r == feeds[cur.src][cur.e]
     IN IF query.mode = "ip" /\ ~Contains(n, QAddr(query))
          THEN /\ b
               /\ bs' = [bs EXCEPT !.ch = Tail(bs.ch)]
               /\ UNCHANGED <<output, mpc, stopped>>
          ELSE /\ output' = Append(output, [src |-> cur.src, r |-> Result(r, n, query, variant)])
               /\ IF b
                    THEN /\ bs' = [bs EXCEPT !.ch = Tail(bs.ch)]
                         /\ UNCHANGED <<mpc, stopped>>
                    ELSE /\ bs' = [bs EXCEPT !.ch = Tail(bs.ch)]
                         /\ stopped' = TRUE
                         /\ mpc' = "bstop"
  /\ UNCHANGED <<variant, query, feeds, collVars, cur, drained,
                 chanVars, received, aborted>>
  /\ UNCHANGED <<netVars, statsVars, readVars, fanVars, cacheVars>>

\* after the break: done = true, and every loop up to retrieveData's is
\* left, where the draining loop follows
BufStop ==
  /\ Running /\ mpc = "bstop"
  /\ bs' = [bs EXCEPT !.done = TRUE]
  /\ mpc' = "drain"
  /\ UNCHANGED <<variant, query, feeds, collVars, cur, stopped, drained,
                 chanVars, received, output, aborted>>
  /\ UNCHANGED <<netVars, statsVars, readVars, fanVars, cacheVars>>

\* the range over the bufferedSeq channel ends; done = true; next entry
BufRecvEnd ==
  /\ Running /\ mpc = "brecv"
  /\ bs.ch = <<>> /\ bs.closed
  /\ bs' = [bs EXCEPT !.done = TRUE]
  /\ cur' = [cur EXCEPT !.e = cur.e + 1]
  /\ mpc' = "scan"
  /\ UNCHANGED <<variant, query, feeds, collVars, stopped, drained,
                 chanVars, received, output, aborted>>
  /\ UNCHANGED <<netVars, statsVars, readVars, fanVars, cacheVars>>

\* "still drain channel on early break": for range ch { }
DrainRecv ==
  /\ Running /\ mpc = "drain"
  /\ rch # <<>>
  /\ received' = Append(received, Head(rch))
  /\ rch' = Tail(rch)
  /\ drained' = drained + 1
  /\ UNCHANGED <<variant, query, feeds, ppc, rclosed, rcloses, wg, mpc,
                 cur, stopped, bs, chanVars, output, aborted>>
  /\ UNCHANGED <<netVars, statsVars, readVars, fanVars, cacheVars>>

\* the draining loop ends on the closed channel: retrieveData returns
DrainEnd ==
  /\ Running /\ mpc = "drain"
  /\ rch = <<>> /\ rclosed
  /\ mpc' = "returned"
  /\ UNCHANGED <<variant, query, feeds, collVars, iterVars,
                 chanVars, received, output, aborted>>
  /\ UNCHANGED <<netVars, statsVars, readVars, fanVars, cacheVars>>

PipeNext ==
  \/ MainStartChan
  \/ IterParseFatal
  \/ MainStartIter
  \/ \E i \in Sources : ReadOk(i)
  \/ \E i \in Sources : ReadFail(i)
  \/ \E i \in Sources : SendRecords(i)
  \/ \E i \in Sources : SourceDone(i)
  \/ CloseRecords
  \/ DispatchParse
  \/ DispatchRecv
  \/ DispatchEnd
  \/ \E i \in Sources : ScanSend(i)
  \/ \E i \in Sources : ScanFatal(i)
  \/ \E i \in Sources : ScanDone(i)
  \/ CloseResults
  \/ MainRecv
  \/ MainEnd
  \/ IterRecv
  \/ IterRecvEnd
  \/ IterScan
  \/ BufFatal
  \/ BufCheck
  \/ BufSend
  \/ BufClose
  \/ \E b \in BOOLEAN : BufRecv(b)
  \/ BufStop
  \/ BufRecvEnd
  \/ DrainRecv
  \/ DrainEnd

\* main is about to run a query: the variant of main, the Query built
\* from the flags and the feeds of the sources are chosen
InitPipe ==
  /\ npc = "idle"
  /\ ipr = [Start |-> 0, Value |-> 0]
  /\ hostsCount = 0
  /\ currentStart = 0
  /\ out = <<>>
  /\ variant \in {"chan", "iter"}
  /\ query \in Queries
  /\ feeds \in FeedAssignments
  /\ ppc = [i \in Sources |-> "idle"]
  /\ rch = <<>>
  /\ rclosed = FALSE
  /\ rcloses = 0
  /\ wg = 0
  /\ mpc = "start"
  /\ cur = [src |-> 0, e |-> 0]
  /\ stopped = FALSE
  /\ drained = 0
  /\ dpc = "off"
  /\ spc = [i \in Sources |-> "idle"]
  /\ spos = [i \in Sources |-> [e |-> 1, k |-> 1]]
  /\ resch = <<>>
  /\ resclosed = FALSE
  /\ wg2 = 0
  /\ bs = [gpc |-> "none", nets |-> <<>>, k |-> 1, ch |-> <<>>, closed |-> FALSE, done |-> FALSE]
  /\ received = <<>>
  /\ output = <<>>
  /\ aborted = FALSE
  /\ countV4 = 0
  /\ countV6 = 0
  /\ counted = <<>>
  /\ rpc = "off"
  /\ feed = <<>>
  /\ lineNo = 0
  /\ recs = [Version |-> <<"0">>, Count |-> 0, AsnCount |-> 0, Ipv4Count |-> 0,
             Ipv6Count |-> 0, Asns |-> <<>>, Ips |-> <<>>]
  /\ region = 0
  /\ scanned = [i \in Sources |-> 0]
  /\ cpc = "off"
  /\ cfile = <<>>
  /\ cfresh = TRUE
  /\ remote = <<>>
  /\ cret = <<>>
  /\ fetched = FALSE
  /\ ncalls = 0

SpecPipe == InitPipe /\ [][PipeNext]_vars

\* the iterator variant alone
IterNext ==
  \/ IterParseFatal
  \/ MainStartIter
  \/ \E i \in Sources : ReadOk(i)
  \/ \E i \in Sources : ReadFail(i)
  \/ \E i \in Sources : SendRecords(i)
  \/ \E i \in Sources : SourceDone(i)
  \/ CloseRecords
  \/ IterRecv
  \/ IterRecvEnd
  \/ IterScan
  \/ BufFatal
  \/ BufCheck
  \/ BufSend
  \/ BufClose
  \/ \E b \in BOOLEAN : BufRecv(b)
  \/ BufStop
  \/ BufRecvEnd
  \/ DrainRecv
  \/ DrainEnd

\* the same for the iterator variant alone
InitIter ==
  /\ npc = "idle"
  /\ ipr = [Start |-> 0, Value |-> 0]
  /\ hostsCount = 0
  /\ currentStart = 0
  /\ out = <<>>
  /\ variant = "iter"
  /\ query \in Queries
  /\ feeds \in IterFeedAssignments
  /\ ppc = [i \in Sources |-> "idle"]
  /\ rch = <<>>
  /\ rclosed = FALSE
  /\ rcloses = 0
  /\ wg = 0
  /\ mpc = "start"
  /\ cur = [src |-> 0, e |-> 0]
  /\ stopped = FALSE
  /\ drained = 0
  /\ dpc = "off"
  /\ spc = [i \in Sources |-> "idle"]
  /\ spos = [i \in Sources |-> [e |-> 1, k |-> 1]]
  /\ resch = <<>>
  /\ resclosed = FALSE
  /\ wg2 = 0
  /\ bs = [gpc |-> "none", nets |-> <<>>, k |-> 1, ch |-> <<>>, closed |-> FALSE, done |-> FALSE]
  /\ received = <<>>
  /\ output = <<>>
  /\ aborted = FALSE
  /\ countV4 = 0
  /\ countV6 = 0
  /\ counted = <<>>
  /\ rpc = "off"
  /\ feed = <<>>
  /\ lineNo = 0
  /\ recs = [Version |-> <<"0">>, Count |-> 0, AsnCount |-> 0, Ipv4Count |-> 0,
             Ipv6Count |-> 0, Asns |-> <<>>, Ips |-> <<>>]
  /\ region = 0
  /\ scanned = [i \in Sources |-> 0]
  /\ cpc = "off"
  /\ cfile = <<>>
  /\ cfresh = TRUE
  /\ remote = <<>>
  /\ cret = <<>>
  /\ fetched = FALSE
  /\ ncalls = 0

SpecIter == InitIter /\ [][IterNext]_vars

(* ---- scheduling: every goroutine that can take a step eventually does ---- *)
SourceTask(i) == ReadOk(i) \/ ReadFail(i) \/ SendRecords(i) \/ SourceDone(i)
BufTask == BufFatal \/ BufCheck \/ BufSend \/ BufClose
IterMainTask ==
  \/ IterParseFatal \/ MainStartIter \/ IterRecv \/ IterRecvEnd \/ IterScan
  \/ (\E b \in BOOLEAN : BufRecv(b)) \/ BufStop \/ BufRecvEnd
  \/ DrainRecv \/ DrainEnd

FairIter ==
  /\ SpecIter
  /\ \A i \in Sources : WF_vars(SourceTask(i))
  /\ WF_vars(CloseRecords)
  /\ WF_vars(BufTask)
  /\ WF_vars(IterMainTask)

(* ---- the oldest variant (variant = "old"): Query.matchOnCountry and ---- *)
(* ---- Query.matchOnIp spawn closures inside the range over records   ---- *)

\* main: records := retrieveData(), then query.matchOnCountry(records) or
\* query.matchOnIp(records); the address is not parsed up front
MainStartOld ==
  /\ Running /\ mpc = "start" /\ variant = "old"
  /\ ppc' = [i \in Sources |-> "read"]
  /\ wg' = wgAddSources
  /\ wg2' = wgAddRegions
  /\ dpc' = "range"
  /\ mpc' = "range"
  /\ UNCHANGED <<variant, query, feeds, rch, rclosed, rcloses, iterVars,
                 spc, spos, resch, resclosed, received, output, aborted>>
  /\ UNCHANGED <<netVars, statsVars, readVars, fanVars, cacheVars>>

\* for region := range records { go func(records *Records) {...}(region) }:
\* a receive assigns the loop variable, then the closure is started
FanRecv ==
  /\ Running /\ variant = "old" /\ dpc = "range"
  /\ rch # <<>>
  /\ region' = Head(rch)
  /\ spc' = [spc EXCEPT ![Head(rch)] = "spawned"]
  /\ received' = Append(received, Head(rch))
  /\ rch' = Tail(rch)
  /\ UNCHANGED <<variant, query, feeds, ppc, rclosed, rcloses, wg, mpc,
                 iterVars, dpc, spos, resch, resclosed, wg2, output, aborted>>
  /\ UNCHANGED <<netVars, statsVars, readVars, scanned, cacheVars>>

\* what the closure started for record set i can read from `region`: the
\* body names the loop variable, not its parameter `records`.  With one
\* loop variable for the whole loop the read races with the next receive
\* and yields the value the variable holds at that moment; with one
\* variable per iteration it yields record set i.
RegionRead(i) == {i, region}

\* `for _, iprecord := range region.Ips`: the range expression is
\* evaluated once, when the closure starts its loop
FanRange(i) ==
  /\ Running /\ variant = "old" /\ spc[i] = "spawned"
  /\ \E g \in RegionRead(i) : scanned' = [scanned EXCEPT ![i] = g]
  /\ spc' = [spc EXCEPT ![i] = "ranging"]
  /\ UNCHANGED <<variant, query, feeds, collVars, mpc, iterVars,
                 dpc, spos, resch, resclosed, wg2, received, output, aborted>>
  /\ UNCHANGED <<netVars, statsVars, readVars, region, cacheVars>>

\* ch <- net / ch <- fmt.Sprintf("%s %s", iprecord.Cc, ipnet).  In
\* matchOnIp, net.ParseIP yields nil for a text that is no address and
\* Contains(nil) is false, as Contains is for the zero address of QAddr.
FanSend(i) ==
  /\ Running /\ variant = "old" /\ spc[i] = "ranging"
  /\ LET es == feeds[scanned[i]]
         at == ScanAt(es, spos[i].e, spos[i].k, query, variant)
     IN /\ at.kind = "send"
        /\ resclosed \/ Len(resch) < ChanBuf
        /\ IF resclosed
             THEN /\ aborted' = TRUE
                  /\ UNCHANGED <<resch, spos>>
             ELSE /\ resch' = ChanPut(resch,
                        [src |-> i,
                         r |-> Result(es[at.e], Net(es[at.e])[at.k], query, variant)])
                  /\ spos' = [spos EXCEPT ![i] = [e |-> at.e, k |-> at.k + 1]]
                  /\ UNCHANGED aborted
  /\ UNCHANGED <<variant, query, feeds, collVars, mpc, iterVars,
                 dpc, spc, resclosed, wg2, received, output>>
  /\ UNCHANGED <<netVars, statsVars, readVars, fanVars, cacheVars>>

\* iprecord.Net() on an entry that is neither ipv4 nor ipv6
FanFatal(i) ==
  /\ Running /\ variant = "old" /\ spc[i] = "ranging"
  /\ ScanAt(feeds[scanned[i]], spos[i].e, spos[i].k, query, variant).kind = "fatal"
  /\ aborted' = TRUE
  /\ UNCHANGED <<variant, query, feeds, collVars, mpc, iterVars,
                 chanVars, received, output>>
  /\ UNCHANGED <<netVars, statsVars, readVars, fanVars, cacheVars>>

\* the loop over region.Ips is over: wg.Done()
FanDone(i) ==
  /\ Running /\ variant = "old" /\ spc[i] = "ranging"
  /\ ScanAt(feeds[scanned[i]], spos[i].e, spos[i].k, query, variant).kind = "end"
  /\ spc' = [spc EXCEPT ![i] = "end"]
  /\ wg2' = wgAfterDone(wg2)
  /\ UNCHANGED <<variant, query, feeds, collVars, mpc, iterVars,
                 dpc, spos, resch, resclosed, received, output, aborted>>
  /\ UNCHANGED <<netVars, statsVars, readVars, fanVars, cacheVars>>

FanNext ==
  \/ MainStartOld
  \/ \E i \in Sources : ReadOk(i)
  \/ \E i \in Sources : ReadFail(i)
  \/ \E i \in Sources : SendRecords(i)
  \/ \E i \in Sources : SourceDone(i)
  \/ CloseRecords
  \/ FanRecv
  \/ DispatchEnd
  \/ \E i \in Sources : FanRange(i)
  \/ \E i \in Sources : FanSend(i)
  \/ \E i \in Sources : FanFatal(i)
  \/ \E i \in Sources : FanDone(i)
  \/ CloseResults
  \/ MainRecv
  \/ MainEnd

\* Records.Ips of the feeds of the oldest variant's sources: every source
\* serves one entry of its own (a block of four addresses), or the first
\* source serves the feed with the unknown family
FeedOne(i) == << IpRec("FR", "ipv4", U32(4 * (i - 1)), 4) >>
FanFeeds == [i \in Sources |-> FeedOne(i)]
FanFeedsOdd == [i \in Sources |-> IF i = 1 THEN FeedOdd ELSE FeedOne(i)]
FanFeedAssignments == {FanFeeds, FanFeedsOdd}

\* main of the oldest variant is about to run a query
InitFan ==
  /\ npc = "idle"
  /\ ipr = [Start |-> 0, Value |-> 0]
  /\ hostsCount = 0
  /\ currentStart = 0
  /\ out = <<>>
  /\ variant = "old"
  /\ query \in Queries
  /\ feeds \in FanFeedAssignments
  /\ ppc = [i \in Sources |-> "idle"]
  /\ rch = <<>>
  /\ rclosed = FALSE
  /\ rcloses = 0
  /\ wg = 0
  /\ mpc = "start"
  /\ cur = [src |-> 0, e |-> 0]
  /\ stopped = FALSE
  /\ drained = 0
  /\ dpc = "off"
  /\ spc = [i \in Sources |-> "idle"]
  /\ spos = [i \in Sources |-> [e |-> 1, k |-> 1]]
  /\ resch = <<>>
  /\ resclosed = FALSE
  /\ wg2 = 0
  /\ bs = [gpc |-> "none", nets |-> <<>>, k |-> 1, ch |-> <<>>, closed |-> FALSE, done |-> FALSE]
  /\ received = <<>>
  /\ output = <<>>
  /\ aborted = FALSE
  /\ countV4 = 0
  /\ countV6 = 0
  /\ counted = <<>>
  /\ rpc = "off"
  /\ feed = <<>>
  /\ lineNo = 0
  /\ recs = [Version |-> <<"0">>, Count |-> 0, AsnCount |-> 0, Ipv4Count |-> 0,
             Ipv6Count |-> 0, Asns |-> <<>>, Ips |-> <<>>]
  /\ region = 0
  /\ scanned = [i \in Sources |-> 0]
  /\ cpc = "off"
  /\ cfile = <<>>
  /\ cfresh = TRUE
  /\ remote = <<>>
  /\ cret = <<>>
  /\ fetched = FALSE
  /\ ncalls = 0

SpecFan == InitFan /\ [][FanNext]_vars

(***************************************************************************)
(* Properties of the collector and of the query engine (SpecPipe)          *)
(***************************************************************************)
Range(sq) == {sq[i] : i \in 1 .. Len(sq)}

Count(x, sq) == Cardinality({i \in 1 .. Len(sq) : sq[i] = x})

SameBag(s1, s2) ==
  \A x \in Range(s1) \cup Range(s2) : Count(x, s1) = Count(x, s2)

AllSourcesEnded == \A i \in Sources : ppc[i] = "end"

\* C4: in the iterator variant, once the consumer has stopped pulling
\* (yield returned false), every per-source task completes its send and
\* finishes and retrieveData returns -- unless a fatal error of a source,
\* which ends the whole process, comes first.
C4_EarlyStopNoLeak ==
  stopped ~> (aborted \/ (mpc = "returned" /\ AllSourcesEnded))

\* retrieveData has returned after an early stop, and the draining loop
\* had record sets to take
C4_Witness ==
  /\ variant = "iter"
  /\ stopped
  /\ mpc = "returned"
  /\ AllSourcesEnded
  /\ drained >= 1

\* the receiver of the record-set channel has seen the close
CloseObserved ==
  \/ variant = "chan" /\ dpc = "end"
  \/ variant = "iter" /\ mpc = "returned"

\* C5: the record-set channel is closed at most once and only after every
\* source's task has sent its record set and called Done (counter zero);
\* no task sends on the closed channel; when the receiver observes the
\* close it has received exactly one record set per source (in the
\* iterator variant all of them through yield unless the consumer
\* stopped).
C5_CloseAfterAllDelivered ==
  /\ rcloses <= 1
  /\ rclosed => (wg = 0 /\ AllSourcesEnded)
  /\ \A i \in Sources : ppc[i] # "sendpanic"
  /\ CloseObserved =>
       /\ rcloses = 1
       /\ Len(received) = NumSources
       /\ Range(received) = Sources
       /\ ~stopped => drained = 0

C5_Witness ==
  /\ CloseObserved
  /\ rcloses = 1
  /\ Len(received) = NumSources
  /\ received[1] = NumSources

\* the query ran to its normal end: main saw the result channel closed,
\* or the iterator returned without the consumer having stopped it
Completed ==
  \/ variant = "chan" /\ mpc = "completed"
  \/ variant = "iter" /\ mpc = "returned" /\ ~stopped

\* the results of the output, without the source they came from
RECURSIVE Delivered(_)
Delivered(o) == IF o = <<>> THEN <<>> ELSE <<Head(o).r>> \o Delivered(Tail(o))

RECURSIVE Concat(_, _, _)
Concat(F(_), lo, hi) == IF lo > hi THEN <<>> ELSE F(lo) \o Concat(F, lo + 1, hi)

\* the decomposed prefixes of the entries of source i whose country code,
\* folded to upper case, equals the (upper-cased) requested code
CountryPrefixesFolded(i) ==
  LET es == feeds[i]
      OfEntry(e) == IF ToUpper(es[e].Cc) = query.country /\ es[e].Type \in {"ipv4", "ipv6"}
                      THEN Net(es[e]) ELSE <<>>
  IN Concat(OfEntry, 1, Len(es))

\* the decomposed prefixes of the entries of source i whose country code
\* is equal, as written in the feed, to the upper-cased requested code
CountryPrefixesExact(i) ==
  LET es == feeds[i]
      OfEntry(e) == IF es[e].Cc = query.country /\ es[e].Type \in {"ipv4", "ipv6"}
                      THEN Net(es[e]) ELSE <<>>
  IN Concat(OfEntry, 1, Len(es))

\* C6 as claimed: when a country query has run to its end, the multiset of
\* delivered prefixes is the multiset of the decomposed prefixes of all
\* ipv4/ipv6 entries of all sources whose country code equals the
\* requested code compared case-insensitively.
C6_CountryFilterFolded ==
  (Completed /\ query.mode = "country")
     => SameBag(Delivered(output), Concat(CountryPrefixesFolded, 1, NumSources))

\* C6 as amended: ... of all ipv4/ipv6 entries whose country code is equal
\* to the upper-cased requested code (the code of the entry is compared as
\* it is written in the feed).
C6_CountryFilterExact ==
  (Completed /\ query.mode = "country")
     => SameBag(Delivered(output), Concat(CountryPrefixesExact, 1, NumSources))

\* a finished FR query over two registries that both register 4/30, one
\* of them also holding an entry with the code "fr"
C6_Witness ==
  /\ Completed
  /\ query.mode = "country" /\ query.country = "FR"
  /\ feeds[1] = FeedFR /\ feeds[2] = FeedDup
  /\ Len(output) = 4
  /\ \E a, b \in 1 .. Len(output) : a # b /\ output[a].r = output[b].r

\* the address lies in the block of the prefix
InBlock(p, a) ==
  /\ p.fam = a.fam
  /\ p.bits # -1
  /\ LET w == IF p.fam = "ipv4" THEN AddrBits ELSE Addr6Bits
         size == Pow2(w - p.bits)
         base == p.addr - (p.addr % size)
     IN a.addr \in base .. (base + size - 1)

\* the (country code, prefix) pairs of source i whose prefix holds the
\* query address
ContainingPairs(i) ==
  LET es == feeds[i]
      Pick(e, k) == IF InBlock(Net(es[e])[k], QAddr(query))
                      THEN <<[cc |-> es[e].Cc, net |-> Net(es[e])[k]]>> ELSE <<>>
      OfEntry(e) == LET P(k) == Pick(e, k) IN Concat(P, 1, Len(Net(es[e])))
  IN Concat(OfEntry, 1, Len(es))

RECURSIVE Pairs(_)
Pairs(o) ==
  IF o = <<>> THEN <<>>
  ELSE <<[cc |-> Head(o).r.cc, net |-> Head(o).r.net]>> \o Pairs(Tail(o))

\* C7: when an address query has run to its end, the delivered results
\* are, as a multiset, the (country code, prefix) pairs of every entry and
\* every decomposed prefix of every source whose prefix contains the
\* address: every match, not only the first, duplicates kept.
C7_EveryMatchDelivered ==
  (Completed /\ query.mode = "ip")
     => SameBag(Pairs(output), Concat(ContainingPairs, 1, NumSources))

\* a finished address query in which two registries hold the same
\* matching prefix and a third match comes from another entry
C7_Witness ==
  /\ Completed
  /\ query.mode = "ip"
  /\ Len(output) = 3
  /\ \E a, b \in 1 .. Len(output) :
        /\ a # b
        /\ output[a].src # output[b].src
        /\ output[a].r = output[b].r

SourceFailed == \E i \in Sources : ppc[i] = "failed"

\* C9: once the task of a source has failed, the query never completes
\* normally and no further result is output.
C9_FailureIsFatal ==
  [][/\ SourceFailed' => (~Completed' /\ mpc' \notin {"completed", "returned"})
     /\ SourceFailed => /\ output' = output
                         /\ mpc' = mpc
                         /\ rclosed' = rclosed
                         /\ resclosed' = resclosed]_vars

\* a source fails after results of another source have been output
C9_Witness ==
  /\ SourceFailed
  /\ Len(output) >= 1
  /\ \E i \in Sources : ppc[i] = "end"

\* the results delivered so far that come from source i, in the order of
\* delivery
ResultsOf(i) ==
  LET FromI(o) == o.src = i
      sel == SelectSeq(output, FromI)
  IN IF query.mode = "country" THEN Delivered(sel) ELSE Pairs(sel)

\* the results source i has to give, entry by entry in the order of the
\* feed lines and, within an entry, prefix by prefix as decomposed
InFeedOrder(i) ==
  IF query.mode = "country" THEN CountryPrefixesExact(i) ELSE ContainingPairs(i)

IsPrefixOf(a, b) == Len(a) <= Len(b) /\ SubSeq(b, 1, Len(a)) = a

\* C14: under every interleaving, the results that come from one source
\* are delivered in the order of its feed lines and, within one entry,
\* from the lowest-addressed prefix up: what has been delivered from a
\* source is always an initial part of its results in feed order.
C14_PerSourceOrder ==
  /\ \A i \in DOMAIN feeds : \A e \in 1 .. Len(feeds[i]) :
        feeds[i][e].Type = "ipv4" => StrictlyAscending(Net(feeds[i][e]))
  /\ mpc # "start" => \A i \in Sources : IsPrefixOf(ResultsOf(i), InFeedOrder(i))

\* a finished query of the channel variant in which a result of another
\* source came between two results of one source, and a source delivered
\* results of two of its entries
C14_Witness ==
  /\ Completed
  /\ variant = "chan"
  /\ \E a, b, c \in 1 .. Len(output) :
        /\ a < b /\ b < c
        /\ output[a].src = output[c].src
        /\ output[b].src # output[a].src
        /\ output[a].r # output[c].r

\* C20: when the consumer of a bufferedSeq stops early, the goroutine of
\* the bufferedSeq eventually exits, its channel closed, whatever the
\* number of elements left (unless the process ends first); it never stays
\* blocked on a send.
C20_ProducerExits ==
  stopped ~> (aborted \/ (bs.gpc = "end" /\ bs.closed))

\* the record sets the scanning tasks range over, once they have started
ScannedSets == {scanned[i] : i \in {j \in Sources : scanned[j] # 0}}

\* C21: fan-out scanning is exactly-once per source: one scanning task is
\* spawned for every record set received from the collector (and none
\* otherwise), each task scans the entries of the record set it was
\* spawned for, no record set is scanned twice and none is skipped, and
\* the result channel is closed only after all tasks have called Done
C21_ExactlyOnceFanOut ==
  /\ \A i \in Sources : spc[i] # "idle" <=> Count(i, received) = 1
  /\ \A i \in Sources : scanned[i] # 0 => scanned[i] = i
  /\ \A i, j \in Sources : (scanned[i] # 0 /\ scanned[i] = scanned[j]) => i = j
  /\ resclosed => /\ \A i \in Sources : spc[i] = "end"
                  /\ ScannedSets = Range(received)

\* C19: every result line delivered by an address-containment query is
\* country code, one TAB character, prefix; the separator is never a space.
C19_TabSeparated ==
  query.mode = "ip" => \A i \in 1 .. Len(output) : output[i].r.sep = "\t"

\* the parse of the -q argument has failed
AddrParseFailed == dpc = "panic" \/ mpc = "badaddr"

\* C11: when the -q argument is not an IP literal, the fatal error comes
\* before the pipeline starts: at the failure of the address parse no
\* task of a source has been spawned.
C11_BadAddressBeforePipeline ==
  AddrParseFailed => \A i \in Sources : ppc[i] = "idle"

(***************************************************************************)
(* Host-count aggregation: main.go (hostscount branch) and                 *)
(* Query.countryStats of the iterator variant                              *)
(***************************************************************************)
\* the loop reads prefixes with at most MaxMask free host bits
MaxMask == 8

\* number of prefixes the loop takes from the results
MaxCounted == 2

\* r.Addr().Is4() selects size 32, anything else 128
SizeOf(fam) == IF fam = "ipv4" THEN 32 ELSE 128

\* the prefixes of the result stream: v4Net emits lengths up to 32, an
\* IPv6 entry carries its length
StatPrefixes ==
  {[fam |-> f, bits |-> SizeOf(f) - m] : f \in {"ipv4", "ipv6"}, m \in 0 .. MaxMask}

\* what one iteration of the loop adds to the counter of the family.
\* main.go: if mask > 0 { netHosts = 1 << mask; if size == 32 && mask < 31
\* { netHosts -= 2 }; count += netHosts }.  countryStats: if mask > 0
\* { count += 1 << mask }.
hostsAdded(v, p) ==
  LET size == SizeOf(p.fam)
      mask == size - p.bits
  IN IF mask > 0
       THEN IF v = "chan" /\ size = 32 /\ mask < 31
              THEN Pow2(mask) - 2
              ELSE Pow2(mask)
       ELSE 0


\* for r := range results { ... count.Add(count, netHosts) }
CountPrefix(p) ==
  /\ Len(counted) < MaxCounted
  /\ counted' = Append(counted, p)
  /\ IF p.fam = "ipv4"
       THEN /\ countV4' = countV4 + hostsAdded(variant, p)
            /\ UNCHANGED countV6
       ELSE /\ countV6' = countV6 + hostsAdded(variant, p)
            /\ UNCHANGED countV4
  /\ UNCHANGED <<netVars, pipeVars, readVars, fanVars, cacheVars>>

StatsNext == \E p \in StatPrefixes : CountPrefix(p)

\* the host-count loop is about to read the results of a country query
InitStats ==
  /\ npc = "idle"
  /\ ipr = [Start |-> 0, Value |-> 0]
  /\ hostsCount = 0
  /\ currentStart = 0
  /\ out = <<>>
  /\ query = [mode |-> "country", country |-> "", ipstring |-> ""]
  /\ feeds = <<>>
  /\ ppc = <<>>
  /\ rch = <<>>
  /\ rclosed = FALSE
  /\ rcloses = 0
  /\ wg = 0
  /\ mpc = "off"
  /\ cur = [src |-> 0, e |-> 0]
  /\ stopped = FALSE
  /\ drained = 0
  /\ dpc = "off"
  /\ spc = <<>>
  /\ spos = <<>>
  /\ resch = <<>>
  /\ resclosed = FALSE
  /\ wg2 = 0
  /\ bs = [gpc |-> "none", nets |-> <<>>, k |-> 1, ch |-> <<>>, closed |-> FALSE, done |-> FALSE]
  /\ received = <<>>
  /\ output = <<>>
  /\ aborted = FALSE
  /\ variant \in {"chan", "iter"}
  /\ countV4 = 0
  /\ countV6 = 0
  /\ counted = <<>>
  /\ rpc = "off"
  /\ feed = <<>>
  /\ lineNo = 0
  /\ recs = [Version |-> <<"0">>, Count |-> 0, AsnCount |-> 0, Ipv4Count |-> 0,
             Ipv6Count |-> 0, Asns |-> <<>>, Ips |-> <<>>]
  /\ region = 0
  /\ scanned = <<>>
  /\ cpc = "off"
  /\ cfile = <<>>
  /\ cfresh = TRUE
  /\ remote = <<>>
  /\ cret = <<>>
  /\ fetched = FALSE
  /\ ncalls = 0

SpecStats == InitStats /\ [][StatsNext]_vars

\* the contribution the host-count rule gives an IPv4 prefix of length L:
\* 2^(32-L) - 2 with at least 2 free host bits, else the full 2^(32-L)
UsableV4(L) == IF 32 - L >= 2 THEN Pow2(32 - L) - 2 ELSE Pow2(32 - L)

RECURSIVE SumUsableV4(_)
SumUsableV4(ps) ==
  IF ps = <<>> THEN 0
  ELSE (IF Head(ps).fam = "ipv4" THEN UsableV4(Head(ps).bits) ELSE 0)
         + SumUsableV4(Tail(ps))

\* C8: the v4 total is the sum, over the delivered IPv4 prefixes, of
\* 2^(32-L) - 2 for a length L with 32 - L >= 2 and of the full 2^(32-L)
\* for L = 31 or 32 (a /24 adds 254, a /31 adds 2, a /32 adds 1).
C8_UsableHostsV4 == countV4 = SumUsableV4(counted)

\* the prefix the loop has just taken
LastCounted == counted'[Len(counted')]

\* C16: every IPv6 prefix of length L taken from the results adds exactly
\* 2^(128-L) to the v6 total, a /128 adding 1; an IPv6 prefix leaves the
\* v4 total as it is and an IPv4 prefix the v6 total.
C16_HostsV6 ==
  [][/\ LastCounted.fam = "ipv6" =>
          /\ countV6' = countV6 + Pow2(128 - LastCounted.bits)
          /\ countV4' = countV4
     /\ LastCounted.fam = "ipv4" => countV6' = countV6]_vars

\* the same statement for the IPv6 prefixes shorter than 128
C16_HostsV6BelowFullLength ==
  [][/\ (LastCounted.fam = "ipv6" /\ LastCounted.bits < 128) =>
          /\ countV6' = countV6 + Pow2(128 - LastCounted.bits)
          /\ countV4' = countV4
     /\ LastCounted.fam = "ipv6" => countV4' = countV4
     /\ LastCounted.fam = "ipv4" => countV6' = countV6]_vars

(***************************************************************************)
(* reader.go: Reader.Read and the parser.  A line is a sequence of         *)
(* characters.  variant = "iter" is the reader of the iterator variant     *)
(* (lines 1-250: check1 around every decode); variant = "chan" is the      *)
(* reader main.go calls (lines 251-502: Read returns (Records, error),     *)
(* toInt).                                                                 *)
(***************************************************************************)
\* number of lines of a feed
MaxLines == 2

DigitChars == <<"0", "1", "2", "3", "4", "5", "6", "7", "8", "9">>
IsDigit(c) == \E d \in 1 .. 10 : DigitChars[d] = c
DigitVal(c) == (CHOOSE d \in 1 .. 10 : DigitChars[d] = c) - 1
AllDigits(w) == \A i \in 1 .. Len(w) : IsDigit(w[i])

\* \s of the regular expressions, on the characters of the model
IsSpace(c) == c = " " \/ c = "\t"

HasPrefix(w, pre) == Len(w) >= Len(pre) /\ SubSeq(w, 1, Len(pre)) = pre
HasSuffix(w, suf) == Len(w) >= Len(suf) /\ SubSeq(w, Len(w) - Len(suf) + 1, Len(w)) = suf

\* strings.Split(line, "|")
Split(l) ==
  LET seps == {i \in 1 .. Len(l) : l[i] = "|"}
      n == Cardinality(seps)
      SepPos(j) == IF j = 0 THEN 0
                   ELSE IF j = n + 1 THEN Len(l) + 1
                   ELSE CHOOSE q \in seps : Cardinality({x \in seps : x < q}) = j - 1
  IN [j \in 1 .. n + 1 |-> SubSeq(l, SepPos(j - 1) + 1, SepPos(j) - 1)]

\* the line with the given fields
RECURSIVE Join(_)
Join(fs) == IF Len(fs) = 1 THEN fs[1] ELSE fs[1] \o <<"|">> \o Join(Tail(fs))

\* strconv.Atoi: an optional sign and at least one digit
Unsigned(w) == IF w # <<>> /\ (w[1] = "+" \/ w[1] = "-") THEN Tail(w) ELSE w
AtoiOk(w) == Unsigned(w) # <<>> /\ AllDigits(Unsigned(w))
AtoiVal(w) ==
  LET u == Unsigned(w)
      val[i \in 0 .. Len(u)] == IF i = 0 THEN 0 ELSE val[i - 1] * 10 + DigitVal(u[i])
  IN IF w[1] = "-" THEN 0 - val[Len(u)] ELSE val[Len(u)]

\* strconv.ParseFloat on the characters of the model (digits, sign, "."):
\* digits with an optional fraction, or a fraction alone
ParseFloatOk(w) ==
  LET u == Unsigned(w)
      dots == {i \in 1 .. Len(u) : u[i] = "."}
  IN /\ Cardinality(dots) <= 1
     /\ \A i \in 1 .. Len(u) : IsDigit(u[i]) \/ u[i] = "."
     /\ \E i \in 1 .. Len(u) : IsDigit(u[i])

\* netip.ParseAddr on the address literals of the model
AddrLit4 == <<"1", ".", "2", ".", "3", ".", "0">>
AddrLit6 == <<"2", "0", "0", "1", ":", ":">>
ParseAddrOk(w) == w = AddrLit4 \/ w = AddrLit6

W_summary == <<"s", "u", "m", "m", "a", "r", "y">>
W_ipv == <<"i", "p", "v">>
W_asn == <<"a", "s", "n">>
W_ipv4 == <<"i", "p", "v", "4">>
W_ipv6 == <<"i", "p", "v", "6">>

\* versionRegex ^\d+\.*\d* matches a line that starts with a digit
isVersion(l) == l # <<>> /\ IsDigit(l[1])

\* ignoredRegex: ^\s*(#.*)?$ (lines 1-250), ^#|^\s*$ (lines 251-502)
isIgnored(l, v) ==
  LET blank == \A i \in 1 .. Len(l) : IsSpace(l[i])
      firstInk == CHOOSE i \in 1 .. Len(l) : ~IsSpace(l[i]) /\ \A j \in 1 .. i - 1 : IsSpace(l[j])
  IN IF v = "iter"
       THEN blank \/ l[firstInk] = "#"
       ELSE blank \/ l[1] = "#"

isSummary(l) == HasSuffix(l, W_summary)
isIp(l) == HasPrefix(Split(l)[3], W_ipv)
isAsn(l) == HasPrefix(Split(l)[3], W_asn)

\* the case Read takes for a line; "panic" is the index p.fields[2] out of
\* range in isIp
LineClass(l, v) ==
  IF isIgnored(l, v) THEN "ignored"
  ELSE IF isVersion(l) THEN "version"
  ELSE IF isSummary(l) THEN "summary"
  ELSE IF Len(Split(l)) < 3 THEN "panic"
  ELSE IF isIp(l) THEN "ip"
  ELSE IF isAsn(l) THEN "asn"
  ELSE "dropped"

\* parseVersion's float: check1(strconv.ParseFloat(...)) in lines 1-250;
\* "version, _ := strconv.ParseFloat(...)" in lines 251-502, where a
\* failed decode leaves 0
VersionFloatFatal(w, v) == v = "iter" /\ ~ParseFloatOk(w)
VersionFloat(w) == IF ParseFloatOk(w) THEN w ELSE <<"0">>

\* the parse of the line ends the process: a failed check1 / toInt /
\* MustParseAddr, or an index out of range
LineFatal(l, v) ==
  LET f == Split(l)
      c == LineClass(l, v)
  IN \/ c = "panic"
     \/ c = "version" /\ (Len(f) < 7 \/ VersionFloatFatal(f[1], v) \/ ~AtoiOk(f[4]))
     \/ c = "summary" /\ (Len(f) < 5 \/ ~AtoiOk(f[5]))
     \/ c = "ip" /\ (Len(f) < 7 \/ ~AtoiOk(f[5]) \/ ~ParseAddrOk(f[4]))
     \/ c = "asn" /\ (Len(f) < 7 \/ ~AtoiOk(f[5]) \/ ~AtoiOk(f[4]))

\* parser.buildRecord
buildRecord(f) ==
  [Registry |-> f[1], Cc |-> f[2], Type |-> f[3], Value |-> AtoiVal(f[5]),
   Date |-> f[6], Status |-> f[7], OpaqueId |-> IF Len(f) > 7 THEN f[8] ELSE <<>>]

\* a counter that adds up the counts of the summary lines of its family
assignCount_Accumulate(old, n) == old + n

\* asnCount = summary.Count (ipv4Count, ipv6Count alike): the count of the
\* summary line replaces the counter
assignCount(old, n) == n

\* the locals of Read after a line that parses
AfterLine(rs, l, v) ==
  LET f == Split(l)
      c == LineClass(l, v)
  IN CASE c = "version" ->
            [rs EXCEPT !.Version = VersionFloat(f[1]), !.Count = AtoiVal(f[4])]
       [] c = "summary" ->
            (CASE f[3] = W_asn -> [rs EXCEPT !.AsnCount = assignCount(rs.AsnCount, AtoiVal(f[5]))]
               [] f[3] = W_ipv4 -> [rs EXCEPT !.Ipv4Count = assignCount(rs.Ipv4Count, AtoiVal(f[5]))]
               [] f[3] = W_ipv6 -> [rs EXCEPT !.Ipv6Count = assignCount(rs.Ipv6Count, AtoiVal(f[5]))]
               [] OTHER -> rs)
       [] c = "ip" ->
            [rs EXCEPT !.Ips = Append(rs.Ips, [Record |-> buildRecord(f), Start |-> f[4]])]
       [] c = "asn" ->
            [rs EXCEPT !.Asns = Append(rs.Asns, [Record |-> buildRecord(f), Start |-> AtoiVal(f[4])])]
       [] OTHER -> rs

\* fields of the lines of the model
F_r == <<"r">>
F_d == <<"d">>
F_star == <<"*">>
F_FR == <<"F", "R">>
F_2 == <<"2">>
F_2x == <<"2", ".", ".", "3">>
F_7 == <<"7">>
F_x == <<"x">>

\* the lines a feed is made of
FeedLines ==
  { <<>>,
    <<"#", "c">>,
    <<" ", "#", "c">>,
    Join(<<F_2, F_r, F_d, F_7, F_d, F_d, F_d>>),
    Join(<<F_2x, F_r, F_d, F_7, F_d, F_d, F_d>>),
    Join(<<F_2, F_r, F_d, F_x, F_d, F_d, F_d>>),
    Join(<<F_r, F_star, W_ipv4, F_star, F_7, W_summary>>),
    Join(<<F_r, F_star, W_asn, F_star, F_x, W_summary>>),
    Join(<<F_r, F_FR, W_ipv4, AddrLit4, F_7, F_d, F_d>>),
    Join(<<F_r, F_FR, W_ipv6, AddrLit6, F_x, F_d, F_d>>),
    Join(<<F_r, F_FR, W_ipv4, F_x, F_7, F_d, F_d>>),
    Join(<<F_r, F_FR, W_asn, F_7, F_2, F_d, F_d, F_x>>),
    Join(<<F_r, F_FR, W_asn, F_x, F_2, F_d, F_d>>),
    Join(<<F_r, F_FR, W_asn \o F_x, F_7, F_2, F_d, F_d>>),
    Join(<<F_r, F_FR, F_x, F_7, F_2, F_d, F_d>>),
    Join(<<F_2, F_r, W_ipv4, F_7, F_2, F_d, W_summary>>),
    Join(<<F_r, F_FR, W_ipv4, AddrLit4, F_2, F_d, W_summary>>),
    Join(<<F_r, F_star, W_asn, F_star, F_2, W_summary>>),
    Join(<<F_r, F_star, W_ipv6, F_star, F_7, W_summary>>),
    Join(<<<<"#">>, F_FR, W_ipv4, AddrLit4, F_7, F_d, W_summary>>),
    F_x }

Feeds == UNION {[1 .. n -> FeedLines] : n \in 0 .. MaxLines}


\* one pass of "for r.s.Scan()" over a line that parses
ReadLine ==
  /\ rpc = "scan"
  /\ lineNo < Len(feed)
  /\ ~LineFatal(feed[lineNo + 1], variant)
  /\ recs' = AfterLine(recs, feed[lineNo + 1], variant)
  /\ lineNo' = lineNo + 1
  /\ UNCHANGED <<rpc, feed>>
  /\ UNCHANGED <<netVars, pipeVars, statsVars, fanVars, cacheVars>>

\* one pass over a line whose parse ends the process
ReadFatal ==
  /\ rpc = "scan"
  /\ lineNo < Len(feed)
  /\ LineFatal(feed[lineNo + 1], variant)
  /\ rpc' = "fatal"
  /\ lineNo' = lineNo + 1
  /\ UNCHANGED <<feed, recs>>
  /\ UNCHANGED <<netVars, pipeVars, statsVars, fanVars, cacheVars>>

\* the scanner is at the end: return Records{...}
ReadReturn ==
  /\ rpc = "scan"
  /\ lineNo = Len(feed)
  /\ rpc' = "returned"
  /\ UNCHANGED <<feed, lineNo, recs>>
  /\ UNCHANGED <<netVars, pipeVars, statsVars, fanVars, cacheVars>>

ReadNext == ReadLine \/ ReadFatal \/ ReadReturn

\* Read is called on a feed by one of the two readers
InitRead ==
  /\ npc = "idle"
  /\ ipr = [Start |-> 0, Value |-> 0]
  /\ hostsCount = 0
  /\ currentStart = 0
  /\ out = <<>>
  /\ query = [mode |-> "country", country |-> "", ipstring |-> ""]
  /\ feeds = <<>>
  /\ ppc = <<>>
  /\ rch = <<>>
  /\ rclosed = FALSE
  /\ rcloses = 0
  /\ wg = 0
  /\ mpc = "off"
  /\ cur = [src |-> 0, e |-> 0]
  /\ stopped = FALSE
  /\ drained = 0
  /\ dpc = "off"
  /\ spc = <<>>
  /\ spos = <<>>
  /\ resch = <<>>
  /\ resclosed = FALSE
  /\ wg2 = 0
  /\ bs = [gpc |-> "none", nets |-> <<>>, k |-> 1, ch |-> <<>>, closed |-> FALSE, done |-> FALSE]
  /\ received = <<>>
  /\ output = <<>>
  /\ aborted = FALSE
  /\ countV4 = 0
  /\ countV6 = 0
  /\ counted = <<>>
  /\ variant \in {"chan", "iter"}
  /\ rpc = "scan"
  /\ feed \in Feeds
  /\ lineNo = 0
  /\ recs = [Version |-> <<"0">>, Count |-> 0, AsnCount |-> 0, Ipv4Count |-> 0,
             Ipv6Count |-> 0, Asns |-> <<>>, Ips |-> <<>>]
  /\ region = 0
  /\ scanned = <<>>
  /\ cpc = "off"
  /\ cfile = <<>>
  /\ cfresh = TRUE
  /\ remote = <<>>
  /\ cret = <<>>
  /\ fetched = FALSE
  /\ ncalls = 0

SpecRead == InitRead /\ [][ReadNext]_vars

\* the class the precedence ignored > version > summary > ip-entry >
\* asn-entry gives a line: that of the first test the line passes, and
\* "dropped" when it passes none
PrecClass(l, v) ==
  LET f == Split(l)
  IN IF isIgnored(l, v) THEN "ignored"
     ELSE IF isVersion(l) THEN "version"
     ELSE IF isSummary(l) THEN "summary"
     ELSE IF Len(f) >= 3 /\ HasPrefix(f[3], W_ipv) THEN "ip"
     ELSE IF Len(f) >= 3 /\ HasPrefix(f[3], W_asn) THEN "asn"
     ELSE "dropped"

\* what a pass of the loop over line l does when l is of class c: nothing
\* for an ignored or dropped line; for the other classes the fields of
\* that class are set (or the decode of the line is fatal) and the rest is
\* left alone
ClassEffect(c, l) ==
  LET f == Split(l)
  IN CASE c \in {"ignored", "dropped"} -> rpc' = "scan" /\ recs' = recs
       [] c = "version" ->
            \/ rpc' = "fatal"
            \/ recs' = [recs EXCEPT !.Version = recs'.Version, !.Count = AtoiVal(f[4])]
       [] c = "summary" ->
            \/ rpc' = "fatal"
            \/ /\ recs' = [recs EXCEPT !.AsnCount = recs'.AsnCount,
                                        !.Ipv4Count = recs'.Ipv4Count,
                                        !.Ipv6Count = recs'.Ipv6Count]
               /\ f[3] = W_ipv4 => recs'.Ipv4Count = AtoiVal(f[5])
               /\ f[3] = W_asn => recs'.AsnCount = AtoiVal(f[5])
       [] c = "ip" ->
            \/ rpc' = "fatal"
            \/ /\ recs' = [recs EXCEPT !.Ips = recs'.Ips]
               /\ Len(recs'.Ips) = Len(recs.Ips) + 1
               /\ SubSeq(recs'.Ips, 1, Len(recs.Ips)) = recs.Ips
       [] c = "asn" ->
            \/ rpc' = "fatal"
            \/ /\ recs' = [recs EXCEPT !.Asns = recs'.Asns]
               /\ Len(recs'.Asns) = Len(recs.Asns) + 1
               /\ SubSeq(recs'.Asns, 1, Len(recs.Asns)) = recs.Asns

\* C12: Read treats every line as the precedence ignored > version >
\* summary > ip-entry > asn-entry classifies it (a comment that would pass
\* a later test is ignored, a line starting with a number is a version
\* line even when it ends with "summary", a line ending with "summary" is a
\* summary line whatever its third field), and a line that passes no test
\* is dropped without error.
C12_PrecedenceEveryLine ==
  [][lineNo' = lineNo + 1 =>
       ClassEffect(PrecClass(feed[lineNo + 1], variant), feed[lineNo + 1])]_vars

\* the same statement for the lines that pass one of the first three
\* tests or have a third field
C12_PrecedenceWithThirdField ==
  [][(/\ lineNo' = lineNo + 1
      /\ \/ PrecClass(feed[lineNo + 1], variant) \in {"ignored", "version", "summary"}
         \/ Len(Split(feed[lineNo + 1])) >= 3) =>
       ClassEffect(PrecClass(feed[lineNo + 1], variant), feed[lineNo + 1])]_vars

\* the line reaches the family tests of Read and has a third field
EntryLine(l, v) ==
  /\ ~isIgnored(l, v) /\ ~isVersion(l) /\ ~isSummary(l)
  /\ Len(Split(l)) >= 3

\* the routing of the claim: "ipv" as prefix, "asn" as the whole field
FamilyRoute(l) ==
  LET fam == Split(l)[3]
  IN IF HasPrefix(fam, W_ipv) THEN "ip"
     ELSE IF fam = W_asn THEN "asn"
     ELSE "dropped"

\* C13: an entry line whose third field starts with "ipv" is appended to
\* the IP entries, one whose third field is exactly "asn" to the ASN
\* entries, and a line with any other third field ("asnx" included) adds
\* nothing to either sequence and raises no error.
C13_FamilyRouting ==
  [][(lineNo' = lineNo + 1 /\ EntryLine(feed[lineNo + 1], variant)) =>
       ClassEffect(FamilyRoute(feed[lineNo + 1]), feed[lineNo + 1])]_vars

\* the same statement for the lines whose third field does not go on
\* after "asn"
C13_FamilyRoutingButAsnPrefix ==
  [][(/\ lineNo' = lineNo + 1
      /\ EntryLine(feed[lineNo + 1], variant)
      /\ LET fam == Split(feed[lineNo + 1])[3]
         IN HasPrefix(fam, W_asn) => fam = W_asn) =>
       ClassEffect(FamilyRoute(feed[lineNo + 1]), feed[lineNo + 1])]_vars

\* the count of the last summary line of the feed for the family, 0
\* without such a line
LastSummaryCount(fd, v, fam) ==
  LET idx == {i \in 1 .. Len(fd) :
                PrecClass(fd[i], v) = "summary" /\ Split(fd[i])[3] = fam}
      last == CHOOSE i \in idx : \A j \in idx : j <= i
  IN IF idx = {} THEN 0 ELSE AtoiVal(Split(fd[last])[5])

\* the lines of the feed that Read parses as entries of class c, in file
\* order
EntryLines(fd, v, c) ==
  LET OfClass(l) == PrecClass(l, v) = c
  IN SelectSeq(fd, OfClass)

\* C15: when Read returns, each per-family counter is the count of the
\* last summary line of that family (0 without one), whatever the number
\* of entry lines of the family, and Ips and Asns hold exactly the lines
\* parsed as entries, in file order.
C15_SummaryCounters ==
  rpc = "returned" =>
    LET ips == EntryLines(feed, variant, "ip")
        asns == EntryLines(feed, variant, "asn")
    IN /\ recs.AsnCount = LastSummaryCount(feed, variant, W_asn)
       /\ recs.Ipv4Count = LastSummaryCount(feed, variant, W_ipv4)
       /\ recs.Ipv6Count = LastSummaryCount(feed, variant, W_ipv6)
       /\ recs.Ips = [i \in 1 .. Len(ips) |->
                        [Record |-> buildRecord(Split(ips[i])), Start |-> Split(ips[i])[4]]]
       /\ recs.Asns = [i \in 1 .. Len(asns) |->
                         [Record |-> buildRecord(Split(asns[i])),
                          Start |-> AtoiVal(Split(asns[i])[4])]]

\* a feed with two ipv4 summary lines of different counts and no ipv4
\* entry has been read: the counter holds the later count
C15_Witness ==
  /\ rpc = "returned"
  /\ Len(feed) = 2
  /\ PrecClass(feed[1], variant) = "summary" /\ Split(feed[1])[3] = W_ipv4
  /\ PrecClass(feed[2], variant) = "summary" /\ Split(feed[2])[3] = W_ipv4
  /\ recs.Ipv4Count = 2
  /\ AtoiVal(Split(feed[1])[5]) = 7
  /\ Len(recs.Ips) = 0

\* every numeric field of the line, as Read classifies it, decodes
NumericFieldsDecode(l, v) ==
  LET f == Split(l)
      c == LineClass(l, v)
  IN /\ c = "version" => (Len(f) >= 4 /\ ParseFloatOk(f[1]) /\ AtoiOk(f[4]))
     /\ c = "summary" => (Len(f) >= 5 /\ AtoiOk(f[5]))
     /\ c = "ip" => (Len(f) >= 5 /\ AtoiOk(f[5]))
     /\ c = "asn" => (Len(f) >= 5 /\ AtoiOk(f[5]) /\ AtoiOk(f[4]))

\* C10: whenever a numeric field of a classified line fails to decode
\* (version number or record count of a version line, count of a summary
\* line, value of an entry line, start of an ASN entry) the parse aborts
\* and Read returns no RecordSet: a returned RecordSet comes from lines
\* whose numeric fields all decoded.
C10_MalformedFieldFatal ==
  rpc = "returned" => \A i \in 1 .. Len(feed) : NumericFieldsDecode(feed[i], variant)

(***************************************************************************)
(* CachedProvider.GetData (cached.go) over DefaultProvider.GetData         *)
(* (providers.go): the cache file of one provider across calls             *)
(***************************************************************************)
\* longest feed, in bytes
MaxFeedLen == 2

\* number of GetData calls followed
MaxCalls == 3

\* the bytes a feed is made of, and the feeds up to MaxFeedLen bytes
FeedBytes == {"a", "b"}
Contents == UNION {[1 .. n -> FeedBytes] : n \in 0 .. MaxFeedLen}

\* the feeds a registry publishes: never empty
Published == Contents \ {<<>>}

\* number of digest values
DigestSpace == 31

\* fmt.Sprintf("%x", md5.Sum(content)): a digest of the whole content, of
\* fixed size whatever the length of the content
Md5Sum(c) ==
  LET h[n \in 0 .. Len(c)] ==
        IF n = 0 THEN 1
        ELSE (3 * h[n - 1] + (IF c[n] = "a" THEN 1 ELSE 2)) % DigestSpace
  IN h[Len(c)]

\* the empty string remoteMd5 returns when it has no digest
NoMd5 == 0 - 1

\* what GET p.url + ".md5" and GET p.url can come to: the expected answer,
\* an answer the code rejects (status other than 200, no digest in the
\* body), or an error of http.Get
Md5Answers == {"digest", "status", "nomatch", "neterr"}
FeedAnswers == {"ok", "status", "neterr"}

localMd5(file) == Md5Sum(file)

\* the digest in the body of the .md5 file, "" without one
remoteMd5(m, rem) == IF m = "digest" THEN Md5Sum(rem) ELSE NoMd5

isStale(file, m, rem) == localMd5(file) # remoteMd5(m, rem)

\* io.Copy(f, data) on the file opened with O_CREATE|O_RDWR: the bytes are
\* written from offset 0 over the old ones; nothing truncates the file
CopyInto(file, data) == data \o SubSeq(file, Len(data) + 1, Len(file))

\* one call of CachedProvider.GetData, from OpenFile to the returned
\* buffer; m and g are the answers of the two HTTP requests it may make
GetData(m, g) ==
  /\ cpc # "off" /\ ncalls < MaxCalls
  /\ ncalls' = ncalls + 1
  /\ LET noRefresh == Len(cfile) > 0 /\ cfresh
         asksMd5 == ~noRefresh /\ Len(cfile) # 0
         refresh == ~noRefresh /\ (Len(cfile) = 0 \/ isStale(cfile, m, remote))
     IN IF (asksMd5 /\ m = "neterr") \/ (refresh /\ g # "ok")
          THEN /\ cpc' = "fatal"
               /\ UNCHANGED <<cfile, cfresh, cret, fetched>>
          ELSE /\ cpc' = "returned"
               /\ fetched' = refresh
               /\ cfile' = IF refresh THEN CopyInto(cfile, remote) ELSE cfile
               /\ cfresh' = IF refresh /\ Len(remote) > 0 THEN TRUE ELSE cfresh
               /\ cret' = cfile'
  /\ UNCHANGED remote
  /\ UNCHANGED <<netVars, pipeVars, statsVars, readVars, fanVars>>

\* the cache file gets older than 24 hours
DayPasses ==
  /\ cpc # "off" /\ cfresh
  /\ cfresh' = FALSE
  /\ UNCHANGED <<cpc, cfile, remote, cret, fetched, ncalls>>
  /\ UNCHANGED <<netVars, pipeVars, statsVars, readVars, fanVars>>

\* the registry publishes another feed (and its .md5)
Publish(c) ==
  /\ cpc # "off" /\ c # remote
  /\ remote' = c
  /\ UNCHANGED <<cpc, cfile, cfresh, cret, fetched, ncalls>>
  /\ UNCHANGED <<netVars, pipeVars, statsVars, readVars, fanVars>>

CacheNext ==
  \/ \E m \in Md5Answers, g \in FeedAnswers : GetData(m, g)
  \/ DayPasses
  \/ \E c \in Published : Publish(c)

\* CreateCacheDir has run, no cache file exists yet (OpenFile creates it
\* empty) and the registry serves some feed
InitCache ==
  /\ npc = "idle"
  /\ ipr = [Start |-> 0, Value |-> 0]
  /\ hostsCount = 0
  /\ currentStart = 0
  /\ out = <<>>
  /\ variant = "chan"
  /\ query = [mode |-> "country", country |-> "", ipstring |-> ""]
  /\ feeds = <<>>
  /\ ppc = <<>>
  /\ rch = <<>>
  /\ rclosed = FALSE
  /\ rcloses = 0
  /\ wg = 0
  /\ mpc = "off"
  /\ cur = [src |-> 0, e |-> 0]
  /\ stopped = FALSE
  /\ drained = 0
  /\ dpc = "off"
  /\ spc = <<>>
  /\ spos = <<>>
  /\ resch = <<>>
  /\ resclosed = FALSE
  /\ wg2 = 0
  /\ bs = [gpc |-> "none", nets |-> <<>>, k |-> 1, ch |-> <<>>, closed |-> FALSE, done |-> FALSE]
  /\ received = <<>>
  /\ output = <<>>
  /\ aborted = FALSE
  /\ countV4 = 0
  /\ countV6 = 0
  /\ counted = <<>>
  /\ rpc = "off"
  /\ feed = <<>>
  /\ lineNo = 0
  /\ recs = [Version |-> <<"0">>, Count |-> 0, AsnCount |-> 0, Ipv4Count |-> 0,
             Ipv6Count |-> 0, Asns |-> <<>>, Ips |-> <<>>]
  /\ region = 0
  /\ scanned = <<>>
  /\ cpc = "idle"
  /\ cfile = <<>>
  /\ cfresh = TRUE
  /\ remote \in Published
  /\ cret = <<>>
  /\ fetched = FALSE
  /\ ncalls = 0

SpecCache == InitCache /\ [][CacheNext]_vars

\* C22: every GetData call that returns gives either the previous cache
\* contents, unchanged and without a download (the file is non-empty and
\* younger than 24 hours, or older with the digest of the remote feed), or
\* exactly the bytes it has just downloaded (the file is empty or stale);
\* no byte of the previous cache file is left in a refreshed content
C22_CacheOrDownload ==
  [][(ncalls' = ncalls + 1 /\ cpc' = "returned") =>
       /\ fetched' => cret' = remote
       /\ ~fetched' => (cret' = cfile /\ cfile' = cfile)
       /\ (Len(cfile) > 0 /\ cfresh) => ~fetched'
       /\ ~fetched' => (Len(cfile) > 0 /\ (cfresh \/ Md5Sum(cfile) = Md5Sum(remote)))]_vars

====
